---- MODULE Spec2Model ----
(***************************************************************************)
(* Model of the immutability (duplicate blocking) BEFORE_UPLOAD worker.    *)
(* One run of the handler is a state machine whose steps are the           *)
(* synchronous segments of the async handler: the code runs to completion  *)
(* between two awaits, so a segment is one atomic step.                    *)
(*                                                                         *)
(* Strings that the code inspects character by character (upload paths,    *)
(* path roots, item paths and names) are sequences of one-character        *)
(* strings.  Strings that are only compared or copied (urls, repository    *)
(* names, the action, fixed message texts) are TLA+ strings.               *)
(***************************************************************************)
EXTENDS Integers, Sequences, FiniteSets, TLC

\* ------------------------------------------------------------------ bounds
MaxPathLen == 4      \* longest upload path, in characters
MaxDepth == 3         \* calls of the directory discovery followed within each other
MaxRewind == 2       \* rounds the batch loop is followed below index 0
MaxRootLen == 2      \* longest configured path root, in characters

Alphabet == {"i", "/"}

Strs(n) == UNION {[1..k -> Alphabet] : k \in 0..n}

\* --------------------------------------------------------- string helpers
EmptyStr == << >>
Dot == <<".">>
Star == <<"*">>

\* String.prototype.startsWith
StartsWith(s, p) == Len(p) <= Len(s) /\ SubSeq(s, 1, Len(p)) = p

\* String.prototype.endsWith, for a one-character suffix
EndsWith(s, c) == Len(s) > 0 /\ s[Len(s)] = c

\* String.prototype.split('/'): the segments between the slashes
RECURSIVE Split(_)
Split(s) ==
    IF \A i \in 1..Len(s) : s[i] # "/"
    THEN <<s>>
    ELSE LET k == CHOOSE i \in 1..Len(s) :
                     s[i] = "/" /\ \A j \in 1..(i-1) : s[j] # "/"
         IN <<SubSeq(s, 1, k-1)>> \o Split(SubSeq(s, k+1, Len(s)))

\* Array.prototype.join('/')
RECURSIVE Join(_)
Join(segs) ==
    IF Len(segs) = 0 THEN EmptyStr
    ELSE IF Len(segs) = 1 THEN segs[1]
    ELSE segs[1] \o <<"/">> \o Join(Tail(segs))

\* segments after segments.pop()
Front(segs) == SubSeq(segs, 1, Len(segs) - 1)

getFileNameFromPath(fullPath) ==
    IF fullPath = EmptyStr THEN EmptyStr
    ELSE LET segments == Split(fullPath) IN segments[Len(segments)]

getDirectoryPathFromPath(fullPath) ==
    IF fullPath = EmptyStr THEN EmptyStr
    ELSE LET segments == Split(fullPath)
         IN IF Len(segments) <= 1 THEN EmptyStr ELSE Join(Front(segments))

\* ------------------------------------------------- configuration document
\* A path root as written in the document: a string, or a value that is not
\* a string (the number 5).
Root(s) == [isString |-> TRUE, s |-> s]
NonStringRoot == [isString |-> FALSE, s |-> EmptyStr]

\* The paths field of a repo entry: absent, an array, a string, or a number.
\* A string has a length and is indexed like an array, each item one of its
\* characters, but it is no array and has no map.
NoPaths == [kind |-> "missing", items |-> << >>]
PathsArr(items) == [kind |-> "array", items |-> items]
PathsStr(text) == [kind |-> "string", items |-> [k \in 1..Len(text) |-> Root(<<text[k]>>)]]
PathsNum == [kind |-> "number", items |-> << >>]

\* A raw repo entry: a bare string, an object, null, or a number.
RepoStr(name) == [kind |-> "string", name |-> name, paths |-> NoPaths]
RepoObj(name, paths) == [kind |-> "object", name |-> name, paths |-> paths]
RepoNull == [kind |-> "null", name |-> "", paths |-> NoPaths]
RepoNum == [kind |-> "number", name |-> "", paths |-> NoPaths]

\* The repos field of a raw target entry: absent or an array.
NoRepos == [kind |-> "missing", items |-> << >>]
ReposArr(items) == [kind |-> "array", items |-> items]

\* A raw target entry: an object, null, or a number.  url "" is absent/empty.
JpdObj(url, repos) == [kind |-> "object", url |-> url, repos |-> repos]
JpdNull == [kind |-> "null", url |-> "", repos |-> NoRepos]
JpdNum == [kind |-> "number", url |-> "", repos |-> NoRepos]

\* The value of rawJSON.action when the document has no action field.
Undefined == "<undefined>"

\* The parsed JSON document: an object or null.
Doc(jpds, action) ==
    [kind |-> "object", jpds |-> [kind |-> "array", items |-> jpds], action |-> action]
DocNoJpds(action) ==
    [kind |-> "object", jpds |-> [kind |-> "missing", items |-> << >>], action |-> action]
DocNull ==
    [kind |-> "null", jpds |-> [kind |-> "missing", items |-> << >>], action |-> Undefined]

\* The configuration text: empty, not parsable, or the JSON text of a document.
EmptyText == [kind |-> "empty", doc |-> DocNull]
GarbageText == [kind |-> "garbage", doc |-> DocNull]
JsonText(doc) == [kind |-> "json", doc |-> doc]

\* ------------------------------------------------------ class Config
DefaultConfig == [jpds |-> << >>, action |-> "warn"]

\* repo => typeof repo === 'string' ? ... : typeof repo === 'object' && repo.name ? ... : null
\* reading repo.name of null raises a TypeError
RepoThrows(repo) == repo.kind = "null"

RepoKept(repo) ==
    \/ repo.kind = "string"
    \/ repo.kind = "object" /\ repo.name # ""

RepoConfig(repo) ==
    IF repo.kind = "string"
    THEN [name |-> repo.name, paths |-> NoPaths]
    ELSE [name |-> repo.name, paths |-> repo.paths]

\* typeof jpd === 'object' && jpd.url && Array.isArray(jpd.repos)
JpdKept(jpd) ==
    jpd.kind = "object" /\ jpd.url # "" /\ jpd.repos.kind = "array"

\* reading jpd.url of null raises a TypeError, and so does a null repo entry
JpdThrows(jpd) ==
    \/ jpd.kind = "null"
    \/ JpdKept(jpd) /\ \E i \in 1..Len(jpd.repos.items) : RepoThrows(jpd.repos.items[i])

JPDConfig(jpd) ==
    LET kept == SelectSeq(jpd.repos.items, RepoKept)
    IN [url |-> jpd.url,
        repos |-> [i \in 1..Len(kept) |-> RepoConfig(kept[i])]]

\* an exception anywhere in the try block of the constructor
ConstructorThrows(rawJSONString) ==
    \/ rawJSONString.kind = "garbage"
    \/ /\ rawJSONString.kind = "json"
       /\ \/ rawJSONString.doc.kind = "null"
          \/ /\ rawJSONString.doc.jpds.kind = "array"
             /\ \E i \in 1..Len(rawJSONString.doc.jpds.items) :
                    JpdThrows(rawJSONString.doc.jpds.items[i])

\* mutant: a document whose action is neither block nor warn is refused as a
\* whole
Config_RefusesUnknownAction(rawJSONString) ==
    IF ConstructorThrows(rawJSONString) THEN DefaultConfig
    ELSE IF rawJSONString.kind = "empty" THEN DefaultConfig
    ELSE IF rawJSONString.doc.action \notin {"block", "warn"} THEN DefaultConfig
    ELSE LET kept == SelectSeq(rawJSONString.doc.jpds.items, JpdKept)
         IN [jpds |-> IF rawJSONString.doc.jpds.kind = "array"
                      THEN [i \in 1..Len(kept) |-> JPDConfig(kept[i])]
                      ELSE << >>,
             action |-> rawJSONString.doc.action]

Config(rawJSONString) ==
    IF ConstructorThrows(rawJSONString) THEN DefaultConfig
    ELSE IF rawJSONString.kind = "empty" THEN DefaultConfig
    ELSE LET kept == SelectSeq(rawJSONString.doc.jpds.items, JpdKept)
         IN [jpds |-> IF rawJSONString.doc.jpds.kind = "array"
                      THEN [i \in 1..Len(kept) |-> JPDConfig(kept[i])]
                      ELSE << >>,
             action |-> rawJSONString.doc.action]

\* ------------------------------------------------------ loadConfig
\* What the configuration store does with the GET: rejects, or resolves with a
\* response that has a status and data of some type.
StoreReject == [kind |-> "reject", status |-> 0, dataType |-> "undefined", text |-> EmptyText]
StoreResponse(status, dataType, text) ==
    [kind |-> "response", status |-> status, dataType |-> dataType, text |-> text]

\* mutant: the status of the response is not tested
loadConfig_AnyStatus(resp) ==
    IF resp.kind = "reject" THEN EmptyText
    ELSE IF resp.dataType \in {"string", "object"} THEN resp.text ELSE EmptyText

loadConfig(resp) ==
    IF resp.kind = "reject" THEN EmptyText
    ELSE IF resp.status = 200
         THEN IF resp.dataType \in {"string", "object"} THEN resp.text ELSE EmptyText
         ELSE EmptyText

\* ------------------------------------------------------ scope resolution
\* mutant: the prefix test does not stop at a segment boundary
RootMatches_NoBoundary(uploadDir, configPath) ==
    \/ uploadDir = configPath.s
    \/ StartsWith(uploadDir, configPath.s)

\* configPath => uploadDir === configPath ||
\*               uploadDir.startsWith(configPath.endsWith('/') ? configPath : configPath + '/')
RootMatches(uploadDir, configPath) ==
    \/ uploadDir = configPath.s
    \/ StartsWith(uploadDir,
                  IF EndsWith(configPath.s, "/") THEN configPath.s
                  ELSE configPath.s \o <<"/">>)

\* repoConfig.paths.some(...): "true", "false", or "throw" when a root that is
\* not a string is reached before a matching one (configPath.endsWith is not
\* a function).
RECURSIVE PathsSome(_, _)
PathsSome(uploadDir, paths) ==
    IF Len(paths) = 0 THEN "false"
    ELSE IF ~ Head(paths).isString THEN "throw"
    ELSE IF RootMatches(uploadDir, Head(paths)) THEN "true"
    ELSE PathsSome(uploadDir, Tail(paths))

HasPaths(repoConfig) ==
    repoConfig.paths.kind = "array" /\ Len(repoConfig.paths.items) > 0

NoRepoConfig == [name |-> "", paths |-> NoPaths]
ScopeMatch(jpd, hasRepo, repoConfig) ==
    [jpd |-> jpd.url, hasRepo |-> hasRepo, repoConfig |-> repoConfig]

\* mutant: every repo scope is relevant, the roots are not looked at
RepoRelevant_Always(uploadDir, repoConfig) == TRUE

RepoRelevant(uploadDir, repoConfig) ==
    IF HasPaths(repoConfig)
    THEN PathsSome(uploadDir, repoConfig.paths.items) = "true"
    ELSE TRUE

RepoResolveThrows(uploadDir, repoConfig) ==
    HasPaths(repoConfig) /\ PathsSome(uploadDir, repoConfig.paths.items) = "throw"

\* mutant: the loop over the repo scopes of a target stops at the first
\* relevant scope
ReposRelevant_FirstOnly(uploadDir, jpd, repos) ==
    LET sel == {r \in 1..Len(repos) : RepoRelevant(uploadDir, repos[r])}
    IN IF sel = {} THEN << >>
       ELSE <<ScopeMatch(jpd, TRUE, repos[CHOOSE r \in sel : \A n \in sel : r <= n])>>

RECURSIVE ReposRelevant(_, _, _)
ReposRelevant(uploadDir, jpd, repos) ==
    IF Len(repos) = 0 THEN << >>
    ELSE (IF RepoRelevant(uploadDir, Head(repos))
          THEN <<ScopeMatch(jpd, TRUE, Head(repos))>> ELSE << >>)
         \o ReposRelevant(uploadDir, jpd, Tail(repos))

\* mutant: a repo scope is selected whatever its roots
RelevantJPDs_IgnoresPaths(uploadDir, configJPDs) ==
    [i \in 1..Len(configJPDs) |->
        ScopeMatch(configJPDs[i], Len(configJPDs[i].repos) > 0,
                   IF Len(configJPDs[i].repos) > 0 THEN configJPDs[i].repos[1]
                   ELSE NoRepoConfig)]

RECURSIVE RelevantJPDs(_, _)
RelevantJPDs(uploadDir, configJPDs) ==
    IF Len(configJPDs) = 0 THEN << >>
    ELSE (IF Len(Head(configJPDs).repos) = 0
          THEN <<ScopeMatch(Head(configJPDs), FALSE, NoRepoConfig)>>
          ELSE ReposRelevant(uploadDir, Head(configJPDs), Head(configJPDs).repos))
         \o RelevantJPDs(uploadDir, Tail(configJPDs))

\* the resolution loop is left by an exception
ResolveThrows(uploadDir, configJPDs) ==
    \E j \in 1..Len(configJPDs) : \E r \in 1..Len(configJPDs[j].repos) :
        RepoResolveThrows(uploadDir, configJPDs[j].repos[r])

\* ------------------------------------------------------ findInstance
\* p + "*": the $match pattern of a root; a root that is not a string is
\* turned into text by the concatenation (5 gives "5*")
Pattern(p) == (IF p.isString THEN p.s ELSE <<"5">>) \o Star

\* findInstance is left by an exception before the query is posted: a paths
\* value of length 2 or more that is a string (pathsToSearch.map is not a
\* function)
findInstanceThrows(pathsToSearch) ==
    pathsToSearch.kind = "string" /\ Len(pathsToSearch.items) > 1

\* mutant: the configured roots are not used, the path is always compared
\* with the directory of the upload
findInstance_ExactPath(jpd, fileName, filePath, targetRepos, limit, pathsToSearch) ==
    [jpd |-> jpd,
     repo |-> targetRepos,
     pathMatch |-> << >>,
     path |-> IF filePath # EmptyStr THEN filePath ELSE Dot,
     name |-> IF fileName # EmptyStr THEN fileName ELSE Star,
     limit |-> limit]

\* The criteria of the AQL query posted to https://<jpd>/artifactory/api/search/aql:
\* repo is the list of repositories of the repo criterion (none when empty),
\* pathMatch the $match patterns of the path criterion, path the value of the
\* path equality criterion (none when empty), name the $match pattern of the
\* name criterion.
findInstance(jpd, fileName, filePath, targetRepos, limit, pathsToSearch) ==
    [jpd |-> jpd,
     repo |-> targetRepos,
     pathMatch |-> IF pathsToSearch.kind \in {"array", "string"} /\ Len(pathsToSearch.items) > 0
                   THEN [i \in 1..Len(pathsToSearch.items) |-> Pattern(pathsToSearch.items[i])]
                   ELSE << >>,
     path |-> IF pathsToSearch.kind \in {"array", "string"} /\ Len(pathsToSearch.items) > 0
              THEN EmptyStr
              ELSE IF filePath # EmptyStr THEN filePath ELSE Dot,
     name |-> IF fileName # EmptyStr THEN fileName ELSE Star,
     limit |-> limit]

\* mutant: the job never hands a repository to findInstance
JobQuery_NoRepoFilter(fullPath, m) ==
    findInstance(m.jpd,
                 getFileNameFromPath(fullPath),
                 getDirectoryPathFromPath(fullPath),
                 << >>,
                 1,
                 IF m.hasRepo THEN m.repoConfig.paths ELSE NoPaths)

\* the query a search job posts for one scope match
JobQuery(fullPath, m) ==
    findInstance(m.jpd,
                 getFileNameFromPath(fullPath),
                 getDirectoryPathFromPath(fullPath),
                 IF m.hasRepo THEN <<m.repoConfig.name>> ELSE << >>,
                 1,
                 IF m.hasRepo THEN m.repoConfig.paths ELSE NoPaths)

\* the search job of a scope match fails in findInstance, before its post;
\* the job catches the error, logs it and ends
JobThrows(m) ==
    findInstanceThrows(IF m.hasRepo THEN m.repoConfig.paths ELSE NoPaths)

\* AQL $match of a text with a pattern: "*" at the end of the pattern stands
\* for any rest (the patterns of findInstance hold no other wildcard)
AqlMatch(text, pattern) ==
    IF EndsWith(pattern, "*")
    THEN StartsWith(text, SubSeq(pattern, 1, Len(pattern) - 1))
    ELSE text = pattern

\* an item of a target satisfies the criteria of a query
ItemMatches(item, query) ==
    /\ Len(query.repo) > 0 => \E k \in 1..Len(query.repo) : item.repo = query.repo[k]
    /\ IF Len(query.pathMatch) > 0
       THEN \E k \in 1..Len(query.pathMatch) : AqlMatch(item.path, query.pathMatch[k])
       ELSE item.path = query.path
    /\ AqlMatch(item.name, query.name)

\* ------------------------------------------------------ runAql
\* What a target does with the posted query: the post rejects, or resolves with
\* a response whose data.results is absent or an array of items.
AqlReject == [kind |-> "reject", hasResults |-> FALSE, results |-> << >>]
AqlResponse(results) == [kind |-> "response", hasResults |-> TRUE, results |-> results]
AqlNoResults == [kind |-> "response", hasResults |-> FALSE, results |-> << >>]
\* no completion yet
NoReply == [kind |-> "pending", hasResults |-> FALSE, results |-> << >>]

runAqlThrows(resp) == resp.kind = "reject"

\* mutant: the results are read from the wrong field, so none is ever seen
runAql_NoResults(resp) == << >>

\* (queryResponse.data.results || [])
runAql(resp) == IF resp.hasResults THEN resp.results ELSE << >>

\* ------------------------------------------------------ messages, responses
\* A message is its fixed text and the values concatenated into it.
Msg(text, path, jpd, repo, item) ==
    [text |-> text, path |-> path, jpd |-> jpd, repo |-> repo, item |-> item]
FixedMsg(text) == Msg(text, EmptyStr, "", "", EmptyStr)

NoMessage == FixedMsg(Undefined)
EssentialDataMissing == FixedMsg("Essential data missing in the request payload.")
NotInScope ==
    FixedMsg("Artifact path is not in configured search scope for any JPD. Upload allowed.")
DuplicateFallback == FixedMsg("Duplicate artifact found. Upload will not proceed.")
UnknownAction == FixedMsg("Unknown action in config. Upload will not proceed.")
NoDuplicates(path) ==
    Msg("Artifact <path> can be uploaded. No duplicates found.", path, "", "", EmptyStr)
\* mutant: the catch block does not put the message of the error in the decision
WorkerFailed_DropsMessage(errorMessage) ==
    Msg("Worker execution failed: <error.message>", EmptyStr, "", "Unknown error", EmptyStr)

WorkerFailed(errorMessage) ==
    Msg("Worker execution failed: <error.message>", EmptyStr, "", errorMessage, EmptyStr)

\* mutant: the path "." of an item at the repository root is not dropped
fullPathOfFoundItem_KeepsDot(firstFound) ==
    firstFound.path \o <<"/">> \o firstFound.name

\* (firstFound.path === '.' ? '' : firstFound.path) +
\* (firstFound.path === '.' ? '' : '/') + firstFound.name
fullPathOfFoundItem(firstFound) ==
    (IF firstFound.path = Dot THEN EmptyStr ELSE firstFound.path)
    \o (IF firstFound.path = Dot THEN EmptyStr ELSE <<"/">>)
    \o firstFound.name

AlreadyExists(path, jpd, firstFound) ==
    Msg("Artifact matching <path> already exists in JPD: <jpd>:<repo>/<item>",
        path, jpd, firstFound.repo, fullPathOfFoundItem(firstFound))

UPLOAD_UNSPECIFIED == "UPLOAD_UNSPECIFIED"
UPLOAD_PROCEED == "UPLOAD_PROCEED"
UPLOAD_STOP == "UPLOAD_STOP"
UPLOAD_WARN == "UPLOAD_WARN"

\* mutant: the response carries the directory of the upload, not its path
RepoPath_DirOnly(key, path) ==
    [defined |-> TRUE, key |-> key, path |-> getDirectoryPathFromPath(path)]

\* data.metadata.repoPath, or undefined
RepoPath(key, path) == [defined |-> TRUE, key |-> key, path |-> path]
UndefinedRepoPath == [defined |-> FALSE, key |-> "", path |-> EmptyStr]

Response(st, msg, repoPath) ==
    [status |-> st, message |-> msg, modifiedRepoPath |-> repoPath, headers |-> {}]
NoResponse == Response("<none>", NoMessage, UndefinedRepoPath)

\* mutant: the configured action is ignored, every duplicate blocks
Decision_AlwaysBlock(isFound, msg, action, path) ==
    IF isFound
    THEN <<UPLOAD_STOP, IF msg # NoMessage THEN msg ELSE DuplicateFallback>>
    ELSE <<UPLOAD_PROCEED, NoDuplicates(path)>>

\* mutant: the default case sets the status and keeps the message of the match
Decision_KeepsMessage(isFound, msg, action, path) ==
    IF isFound
    THEN <<IF action = "warn" THEN UPLOAD_WARN ELSE UPLOAD_STOP,
           IF msg # NoMessage THEN msg ELSE DuplicateFallback>>
    ELSE <<UPLOAD_PROCEED, NoDuplicates(path)>>

\* mutant: the switch on the action has no default branch
Decision_NoDefault(isFound, msg, action, path) ==
    IF isFound
    THEN IF action = "block"
         THEN <<UPLOAD_STOP, IF msg # NoMessage THEN msg ELSE DuplicateFallback>>
         ELSE IF action = "warn"
         THEN <<UPLOAD_WARN, IF msg # NoMessage THEN msg ELSE DuplicateFallback>>
         ELSE <<UPLOAD_UNSPECIFIED, IF msg # NoMessage THEN msg ELSE DuplicateFallback>>
    ELSE <<UPLOAD_PROCEED, NoDuplicates(path)>>

\* the policy decision after the search: <<status, message>>
Decision(isFound, msg, action, path) ==
    IF isFound
    THEN IF action = "block"
         THEN <<UPLOAD_STOP, IF msg # NoMessage THEN msg ELSE DuplicateFallback>>
         ELSE IF action = "warn"
         THEN <<UPLOAD_WARN, IF msg # NoMessage THEN msg ELSE DuplicateFallback>>
         ELSE <<UPLOAD_STOP, UnknownAction>>
    ELSE <<UPLOAD_PROCEED, NoDuplicates(path)>>

\* ------------------------------------------------------ inputs
Keys == {"", "r", "x"}

\* the upload event: data.metadata.repoPath may be absent
NoRepoPathRequest == [hasRepoPath |-> FALSE, key |-> "", path |-> EmptyStr]
Requests ==
    {NoRepoPathRequest}
    \cup {[hasRepoPath |-> TRUE, key |-> k, path |-> p] : k \in Keys, p \in Strs(MaxPathLen)}

Actions == {"block", "warn", "audit", Undefined}

\* documents with one target and one repo scope, over every list of roots
GenRoots == {Root(s) : s \in Strs(MaxRootLen)}
GenRootLists ==
    {<<a>> : a \in GenRoots} \cup {<<a, b>> : a \in GenRoots, b \in GenRoots}
GenDocs ==
    {Doc(<<JpdObj("a", ReposArr(<<RepoObj("r", PathsArr(rs))>>))>>, "block") :
        rs \in GenRootLists}

\* documents with several targets and scopes, well formed or not
TargetLists ==
    { \* two targets watching the same root
      <<JpdObj("a", ReposArr(<<RepoObj("r", PathsArr(<<Root(<<"i">>)>>))>>)),
        JpdObj("b", ReposArr(<<RepoObj("r", PathsArr(<<Root(<<"i">>)>>))>>))>>,
      \* an unrestricted target, a rooted scope and a whole-repo scope
      <<JpdObj("a", ReposArr(<< >>)),
        JpdObj("b", ReposArr(<<RepoObj("r", PathsArr(<<Root(<<"i">>)>>)),
                               RepoObj("q", NoPaths)>>))>>,
      \* bare repo names, one of them empty, and an empty paths array
      <<JpdObj("a", ReposArr(<<RepoStr("r"), RepoStr("")>>)),
        JpdObj("b", ReposArr(<<RepoObj("q", PathsArr(<< >>))>>))>>,
      \* entries the constructor drops
      <<JpdObj("", ReposArr(<< >>)), JpdNum, JpdObj("a", NoRepos),
        JpdObj("b", ReposArr(<<RepoNum, RepoObj("", NoPaths), RepoObj("r", PathsNum)>>))>>,
      \* null entries
      <<JpdObj("a", ReposArr(<< >>)), JpdNull>>,
      <<JpdObj("a", ReposArr(<<RepoObj("r", NoPaths), RepoNull>>))>>,
      \* a root that is not a string, after and before a string root
      <<JpdObj("a", ReposArr(<<RepoObj("r", PathsArr(<<Root(<<"i">>), NonStringRoot>>))>>))>>,
      <<JpdObj("a", ReposArr(<<RepoObj("r", PathsArr(<<NonStringRoot, Root(<<"i">>)>>))>>))>>,
      \* two targets of which at most one watches the directory of an upload
      <<JpdObj("a", ReposArr(<<RepoObj("r", PathsArr(<<Root(<<"i">>)>>))>>)),
        JpdObj("b", ReposArr(<<RepoObj("x", PathsArr(<<Root(<<"i", "i">>)>>))>>))>>,
      \* the same target configured twice, the second time with the same
      \* scope twice
      <<JpdObj("a", ReposArr(<<RepoObj("r", PathsArr(<<Root(<<"i", "i">>)>>))>>)),
        JpdObj("a", ReposArr(<<RepoObj("r", PathsArr(<<Root(<<"i", "i">>)>>)),
                               RepoObj("r", PathsArr(<<Root(<<"i", "i">>)>>))>>))>>,
      \* an unrestricted target beside a scope with a root that is not a string
      <<JpdObj("a", ReposArr(<< >>)),
        JpdObj("b", ReposArr(<<RepoObj("r", PathsArr(<<NonStringRoot>>))>>))>>,
      \* paths written as a string instead of an array
      <<JpdObj("a", ReposArr(<<RepoObj("r", PathsStr(<<"i", "i">>))>>))>>,
      <<JpdObj("a", ReposArr(<<RepoObj("r", PathsStr(<<"i", "i">>))>>)),
        JpdObj("b", ReposArr(<<RepoObj("q", PathsStr(<<"i">>)),
                               RepoObj("r", PathsStr(<< >>))>>))>>,
      << >> }

CuratedDocs ==
    {Doc(ts, act) : ts \in TargetLists, act \in Actions}
    \cup {DocNoJpds("block"), DocNull}

StoreResponses ==
    {StoreReject,
     StoreResponse(404, "object", JsonText(Doc(<<JpdObj("a", ReposArr(<< >>))>>, "block"))),
     StoreResponse(200, "undefined", EmptyText),
     StoreResponse(200, "string", EmptyText),
     StoreResponse(200, "string", GarbageText)}
    \cup {StoreResponse(200, "string", JsonText(d)) : d \in GenDocs}
    \cup {StoreResponse(200, "object", JsonText(d)) : d \in CuratedDocs}

Items ==
    {[repo |-> "r", path |-> Dot, name |-> <<"i">>],
     [repo |-> "q", path |-> <<"i">>, name |-> <<"i">>]}

AqlResponses ==
    {AqlReject, AqlNoResults, AqlResponse(<< >>)}
    \cup {AqlResponse(<<[repo |-> "r", path |-> Dot, name |-> <<"i">>]>>)}
    \cup {AqlResponse(<<[repo |-> "q", path |-> <<"i">>, name |-> <<"i">>],
                        [repo |-> "r", path |-> Dot, name |-> <<"i">>]>>)}

\* ------------------------------------------------------ state
VARIABLES
    data,           \* the upload event handed to the handler
    store,          \* what the configuration store answers
    pc,             \* where the handler is: start, loadConfig, spawn, search,
                    \* returned, raised (none: not invoked)
    storeCalls,     \* GETs sent to the configuration store
    config,         \* the Config built from the loaded text
    relevantJPDs,   \* the resolved scope matches
    jobs,           \* per scope match: new, inflight, skipped, settled
    queries,        \* the AQL queries posted, in order
    replies,        \* per scope match: what its post completed with
    handled,        \* the jobs whose completion has run, in the order it ran
    found, foundResult, foundMessage,
    status, message,
    response,       \* the value the handler returned
    other           \* a second invocation of the handler, parked while the
                    \* first one runs: its event, its store answer, its locals

\* the state of a run of the scheduled sync worker
VARIABLES
    build,          \* which of the two builds of the sync worker runs
    props,          \* the worker properties, as texts
    phase,          \* where the sync handler is: start, detect, expand,
                    \* expanded, batch, pulling, delay, done
    finalUpstreamUrl,
    allPaths,       \* the path list of the handler
    expandedPaths,  \* the list expandDirectoryPaths builds
    expandIndex,    \* entries of allPaths that expandDirectoryPaths has handled
    site,           \* the upstream the listings are fetched from
    stack,          \* the calls of discoverFilesFromUpstream that have not
                    \* returned, the outermost first
    cache,          \* filterDeltaFiles, per file path: unchecked, pending,
                    \* cached, uncached
    uncachedFiles,  \* the list filterDeltaFiles builds
    deltaIndex,     \* the index i of the loop of filterDeltaFiles
    loopIndex,      \* the index i of the batch loop
    outcome,        \* per path of the pull phase: unissued, pending, ok, failed
    calls,          \* the HTTP calls made, in order
    successCount, failureCount,
    result          \* the response the sync handler resolved with

\* the state of a run of the build-diff worker
VARIABLES
    buildEvent,     \* the build event and the secrets of the worker
    diffPc,         \* where the build-diff handler is: start, builds, token,
                    \* diff, done (none: not invoked)
    diffCalls,      \* the HTTP calls made, in order
    previousBuildNumber,
    accessToken,
    diffResponse    \* the response the build-diff handler resolved with

gateVars == <<data, store, pc, storeCalls, config, relevantJPDs, jobs, queries, replies,
              handled, found, foundResult, foundMessage, status, message, response, other>>

syncVars == <<build, props, phase, finalUpstreamUrl, allPaths, expandedPaths,
              expandIndex, site, stack, cache, uncachedFiles, deltaIndex, loopIndex,
              outcome, calls, successCount, failureCount, result>>

diffVars == <<buildEvent, diffPc, diffCalls, previousBuildNumber, accessToken, diffResponse>>

vars == <<gateVars, syncVars, diffVars>>

\* null, as the value of a variable that holds a text otherwise
Null == <<"<null>">>

\* no build event
NoBuildEvent ==
    [hasBuild |-> FALSE, number |-> << >>, projectKey |-> "", nth |-> ""]

\* the build-diff handler has not resolved yet
NoDiffResponse == [message |-> "<none>"]

\* the build-diff worker is not triggered
DiffIdle ==
    /\ buildEvent = NoBuildEvent
    /\ diffPc = "none"
    /\ diffCalls = << >>
    /\ previousBuildNumber = Null
    /\ accessToken = Null
    /\ diffResponse = NoDiffResponse

\* the properties of a worker that is not configured
NoProps ==
    [targetRemoteRepo |-> "", paths |-> << >>, upstreamUrl |-> "",
     maxWorkers |-> "", onlyDelta |-> "", dryRun |-> ""]

\* the sync handler has not resolved yet
NoSyncResponse == [text |-> "<none>", n |-> 0, ok |-> 0, failed |-> 0, error |-> ""]

\* the sync worker is not triggered
SyncIdle ==
    /\ build = "worker"
    /\ props = NoProps
    /\ phase = "none"
    /\ finalUpstreamUrl = ""
    /\ allPaths = << >>
    /\ expandedPaths = << >>
    /\ expandIndex = 0
    /\ site = "none"
    /\ stack = << >>
    /\ cache = << >>
    /\ uncachedFiles = << >>
    /\ deltaIndex = 0
    /\ loopIndex = 0
    /\ outcome = << >>
    /\ calls = << >>
    /\ successCount = 0
    /\ failureCount = 0
    /\ result = NoSyncResponse

\* an invocation of the handler that has not run yet: the locals as declared
Fresh(d, s) ==
    [data |-> d, store |-> s, pc |-> "start", storeCalls |-> 0,
     config |-> DefaultConfig, relevantJPDs |-> << >>, jobs |-> << >>,
     queries |-> << >>, replies |-> << >>, handled |-> << >>,
     found |-> FALSE, foundResult |-> << >>, foundMessage |-> NoMessage,
     status |-> UPLOAD_UNSPECIFIED, message |-> NoMessage, response |-> NoResponse]

\* there is no second invocation
NoInvocation == [Fresh(NoRepoPathRequest, StoreReject) EXCEPT !.pc = "none"]

\* the invocation that is running
Running ==
    [data |-> data, store |-> store, pc |-> pc, storeCalls |-> storeCalls,
     config |-> config, relevantJPDs |-> relevantJPDs, jobs |-> jobs,
     queries |-> queries, replies |-> replies, handled |-> handled,
     found |-> found, foundResult |-> foundResult, foundMessage |-> foundMessage,
     status |-> status, message |-> message, response |-> response]

Init ==
    /\ data \in Requests
    /\ store \in StoreResponses
    /\ pc = "start"
    /\ storeCalls = 0
    /\ config = DefaultConfig
    /\ relevantJPDs = << >>
    /\ jobs = << >>
    /\ queries = << >>
    /\ replies = << >>
    /\ handled = << >>
    /\ found = FALSE
    /\ foundResult = << >>
    /\ foundMessage = NoMessage
    /\ status = UPLOAD_UNSPECIFIED
    /\ message = NoMessage
    /\ response = NoResponse
    /\ other = NoInvocation
    /\ SyncIdle
    /\ DiffIdle

\* mutant: the path of the upload is not validated
Processable_KeyOnly(d) == d.hasRepoPath /\ d.key # ""

\* data && data.metadata && data.metadata.repoPath && repoPath.key && repoPath.path
Processable(d) == d.hasRepoPath /\ d.key # "" /\ d.path # EmptyStr

\* The handler is entered: the payload is validated, then the configuration
\* is requested from the store.
Start ==
    /\ pc = "start"
    /\ IF Processable(data)
       THEN /\ pc' = "loadConfig"
            /\ storeCalls' = storeCalls + 1
            /\ UNCHANGED response
       ELSE /\ pc' = "returned"
            /\ response' = Response(UPLOAD_STOP, EssentialDataMissing, UndefinedRepoPath)
            /\ UNCHANGED storeCalls
    /\ UNCHANGED <<syncVars, diffVars>>
    /\ UNCHANGED <<other, data, store, config, relevantJPDs, jobs, queries, replies, handled,
                   found, foundResult, foundMessage, status, message>>

\* mutant: the configuration is kept at module level once it has been built,
\* a later invocation uses it and does not parse the text it has read
LoadConfigDone_Cached ==
    /\ pc = "loadConfig"
    /\ LET configString == loadConfig(store)
           cfg == IF other.pc \in {"spawn", "search", "returned", "raised"}
                  THEN other.config ELSE Config(configString)
           uploadDir == getDirectoryPathFromPath(data.path)
       IN /\ config' = cfg
          /\ IF ResolveThrows(uploadDir, cfg.jpds)
             THEN /\ pc' = "raised"
                  /\ status' = UPLOAD_STOP
                  /\ message' = WorkerFailed("configPath.endsWith is not a function")
                  /\ UNCHANGED <<relevantJPDs, jobs, replies, response>>
             ELSE LET rel == RelevantJPDs(uploadDir, cfg.jpds)
                  IN IF Len(rel) = 0
                     THEN /\ pc' = "returned"
                          /\ response' = Response(UPLOAD_PROCEED, NotInScope,
                                                  RepoPath(data.key, data.path))
                          /\ UNCHANGED <<relevantJPDs, jobs, replies, status, message>>
                     ELSE /\ pc' = "spawn"
                          /\ relevantJPDs' = rel
                          /\ jobs' = [i \in 1..Len(rel) |-> "new"]
                          /\ replies' = [i \in 1..Len(rel) |-> NoReply]
                          /\ UNCHANGED <<status, message, response>>
    /\ UNCHANGED <<syncVars, diffVars>>
    /\ UNCHANGED <<other, data, store, storeCalls, queries, handled,
                   found, foundResult, foundMessage>>

\* The store has answered: the text is parsed and the scope is resolved.
LoadConfigDone ==
    /\ pc = "loadConfig"
    /\ LET configString == loadConfig(store)
           cfg == Config(configString)
           uploadDir == getDirectoryPathFromPath(data.path)
       IN /\ config' = cfg
          /\ IF ResolveThrows(uploadDir, cfg.jpds)
             THEN /\ pc' = "raised"
                  /\ status' = UPLOAD_STOP
                  /\ message' = WorkerFailed("configPath.endsWith is not a function")
                  /\ UNCHANGED <<relevantJPDs, jobs, replies, response>>
             ELSE LET rel == RelevantJPDs(uploadDir, cfg.jpds)
                  IN IF Len(rel) = 0
                     THEN /\ pc' = "returned"
                          /\ response' = Response(UPLOAD_PROCEED, NotInScope,
                                                  RepoPath(data.key, data.path))
                          /\ UNCHANGED <<relevantJPDs, jobs, replies, status, message>>
                     ELSE /\ pc' = "spawn"
                          /\ relevantJPDs' = rel
                          /\ jobs' = [i \in 1..Len(rel) |-> "new"]
                          /\ replies' = [i \in 1..Len(rel) |-> NoReply]
                          /\ UNCHANGED <<status, message, response>>
    /\ UNCHANGED <<syncVars, diffVars>>
    /\ UNCHANGED <<other, data, store, storeCalls, queries, handled,
                   found, foundResult, foundMessage>>

\* mutant: the jobs are started one after the other, each when the one before
\* has settled, and the job does not test found before it posts its query
SpawnJob_LazyUnguarded ==
    /\ pc \in {"spawn", "search"}
    /\ \E k \in 1..Len(jobs) : jobs[k] = "new"
    /\ \A k \in 1..Len(jobs) : jobs[k] # "inflight"
    /\ LET i == CHOOSE k \in 1..Len(jobs) :
                    jobs[k] = "new" /\ \A j \in 1..(k-1) : jobs[j] # "new"
       IN IF JobThrows(relevantJPDs[i])
          THEN /\ jobs' = [jobs EXCEPT ![i] = "settled"]
               /\ UNCHANGED queries
          ELSE /\ jobs' = [jobs EXCEPT ![i] = "inflight"]
               /\ queries' = Append(queries, JobQuery(data.path, relevantJPDs[i]))
    /\ pc' = "search"
    /\ UNCHANGED <<syncVars, diffVars>>
    /\ UNCHANGED <<other, data, store, storeCalls, config, relevantJPDs, replies, handled,
                   found, foundResult, foundMessage, status, message, response>>

\* mutant: a job searches the repository the upload goes to
SpawnJob_OwnRepository ==
    /\ pc = "spawn"
    /\ LET i == CHOOSE k \in 1..Len(jobs) :
                    jobs[k] = "new" /\ \A j \in 1..(k-1) : jobs[j] # "new"
       IN /\ IF found
             THEN /\ jobs' = [jobs EXCEPT ![i] = "skipped"]
                  /\ UNCHANGED queries
             ELSE IF JobThrows(relevantJPDs[i])
             THEN /\ jobs' = [jobs EXCEPT ![i] = "settled"]
                  /\ UNCHANGED queries
             ELSE /\ jobs' = [jobs EXCEPT ![i] = "inflight"]
                  /\ queries' = Append(queries,
                         [JobQuery(data.path, relevantJPDs[i]) EXCEPT !.repo = <<data.key>>])
          /\ pc' = IF i = Len(jobs) THEN "search" ELSE "spawn"
    /\ UNCHANGED <<syncVars, diffVars>>
    /\ UNCHANGED <<other, data, store, storeCalls, config, relevantJPDs, replies, handled,
                   found, foundResult, foundMessage, status, message, response>>

\* One iteration of the loop that creates the search jobs.  The job runs up to
\* its first await: it tests found, then posts its query.  No completion is
\* handled before the loop has ended.  A job whose findInstance throws posts
\* nothing: its catch logs the error and the job has ended before any
\* completion is handled.
SpawnJob ==
    /\ pc = "spawn"
    /\ LET i == CHOOSE k \in 1..Len(jobs) :
                    jobs[k] = "new" /\ \A j \in 1..(k-1) : jobs[j] # "new"
       IN /\ IF found
             THEN /\ jobs' = [jobs EXCEPT ![i] = "skipped"]
                  /\ UNCHANGED queries
             ELSE IF JobThrows(relevantJPDs[i])
             THEN /\ jobs' = [jobs EXCEPT ![i] = "settled"]
                  /\ UNCHANGED queries
             ELSE /\ jobs' = [jobs EXCEPT ![i] = "inflight"]
                  /\ queries' = Append(queries, JobQuery(data.path, relevantJPDs[i]))
          /\ pc' = IF i = Len(jobs) THEN "search" ELSE "spawn"
    /\ UNCHANGED <<syncVars, diffVars>>
    /\ UNCHANGED <<other, data, store, storeCalls, config, relevantJPDs, replies, handled,
                   found, foundResult, foundMessage, status, message, response>>

\* mutant: the completion does not test found again, the last match wins
QueryComplete_LastWins(i, resp) ==
    /\ pc = "search"
    /\ jobs[i] = "inflight"
    /\ jobs' = [jobs EXCEPT ![i] = "settled"]
    /\ replies' = [replies EXCEPT ![i] = resp]
    /\ handled' = Append(handled, i)
    /\ IF ~ runAqlThrows(resp) /\ Len(runAql(resp)) > 0
       THEN /\ found' = TRUE
            /\ foundResult' = runAql(resp)
            /\ foundMessage' = AlreadyExists(data.path, relevantJPDs[i].jpd, runAql(resp)[1])
       ELSE UNCHANGED <<found, foundResult, foundMessage>>
    /\ UNCHANGED <<syncVars, diffVars>>
    /\ UNCHANGED <<other, data, store, pc, storeCalls, config, relevantJPDs, queries,
                   status, message, response>>

\* mutant: the job has no try/catch, a failed query ends the run with the error
QueryComplete_ErrorEscapes(i, resp) ==
    /\ pc = "search"
    /\ jobs[i] = "inflight"
    /\ jobs' = [jobs EXCEPT ![i] = "settled"]
    /\ replies' = [replies EXCEPT ![i] = resp]
    /\ handled' = Append(handled, i)
    /\ IF runAqlThrows(resp)
       THEN /\ pc' = "raised"
            /\ status' = UPLOAD_STOP
            /\ message' = WorkerFailed("AQL query failed")
            /\ UNCHANGED <<found, foundResult, foundMessage>>
       ELSE /\ IF ~ found /\ Len(runAql(resp)) > 0
               THEN /\ found' = TRUE
                    /\ foundResult' = runAql(resp)
                    /\ foundMessage' =
                           AlreadyExists(data.path, relevantJPDs[i].jpd, runAql(resp)[1])
               ELSE UNCHANGED <<found, foundResult, foundMessage>>
            /\ UNCHANGED <<pc, status, message>>
    /\ UNCHANGED <<syncVars, diffVars>>
    /\ UNCHANGED <<other, data, store, storeCalls, config, relevantJPDs, queries, response>>

\* mutant: a job does not catch, and a job whose post was rejected never
\* settles
QueryComplete_RejectNeverSettles(i, resp) ==
    /\ pc = "search"
    /\ jobs[i] = "inflight"
    /\ replies[i] = NoReply
    /\ replies' = [replies EXCEPT ![i] = resp]
    /\ IF runAqlThrows(resp)
       THEN UNCHANGED <<jobs, handled, found, foundResult, foundMessage>>
       ELSE /\ jobs' = [jobs EXCEPT ![i] = "settled"]
            /\ handled' = Append(handled, i)
            /\ IF ~ found /\ Len(runAql(resp)) > 0
               THEN /\ found' = TRUE
                    /\ foundResult' = runAql(resp)
                    /\ foundMessage' =
                           AlreadyExists(data.path, relevantJPDs[i].jpd, runAql(resp)[1])
               ELSE UNCHANGED <<found, foundResult, foundMessage>>
    /\ UNCHANGED <<syncVars, diffVars>>
    /\ UNCHANGED <<other, data, store, pc, storeCalls, config, relevantJPDs, queries,
                   status, message, response>>

\* The post of job i has completed with resp: the rest of the job runs.
QueryComplete(i, resp) ==
    /\ pc = "search"
    /\ jobs[i] = "inflight"
    /\ jobs' = [jobs EXCEPT ![i] = "settled"]
    /\ replies' = [replies EXCEPT ![i] = resp]
    /\ handled' = Append(handled, i)
    /\ IF ~ runAqlThrows(resp) /\ ~ found /\ Len(runAql(resp)) > 0
       THEN /\ found' = TRUE
            /\ foundResult' = runAql(resp)
            /\ foundMessage' = AlreadyExists(data.path, relevantJPDs[i].jpd, runAql(resp)[1])
       ELSE UNCHANGED <<found, foundResult, foundMessage>>
    /\ UNCHANGED <<syncVars, diffVars>>
    /\ UNCHANGED <<other, data, store, pc, storeCalls, config, relevantJPDs, queries,
                   status, message, response>>

\* mutant: the wait ends with the first duplicate (wait-for-first)
AllSettled_OrFound ==
    found \/ \A i \in 1..Len(jobs) : jobs[i] \in {"settled", "skipped"}

\* await Promise.allSettled(searchJobs)
AllSettled == \A i \in 1..Len(jobs) : jobs[i] \in {"settled", "skipped"}

\* Promise.allSettled has resolved: the decision is taken and returned.
Decide ==
    /\ pc = "search"
    /\ AllSettled
    /\ LET d == Decision(found, foundMessage, config.action, data.path)
       IN /\ status' = d[1]
          /\ message' = d[2]
          /\ response' = Response(d[1], d[2], RepoPath(data.key, data.path))
    /\ pc' = "returned"
    /\ UNCHANGED <<syncVars, diffVars>>
    /\ UNCHANGED <<other, data, store, storeCalls, config, relevantJPDs, jobs, queries, replies,
                   handled, found, foundResult, foundMessage>>

Next ==
    \/ Start
    \/ LoadConfigDone
    \/ SpawnJob
    \/ \E i \in 1..Len(jobs) : \E resp \in AqlResponses : QueryComplete(i, resp)
    \/ Decide

Spec == Init /\ [][Next]_vars

\* ------------------------------------------------------ two upload events
\* Two uploads are handled by two invocations of the handler.  An invocation
\* runs until it awaits (the store, the queries) or ends; then the other one
\* may run.  Each invocation gets its own answer from the store: the stored
\* configuration may have changed between the two reads.

EventRequests ==
    {[hasRepoPath |-> TRUE, key |-> k, path |-> p] :
        k \in {"r", "x"}, p \in {<<"i", "/", "i">>, <<"i", "i", "/", "i">>}}

EventTargetLists ==
    {<<JpdObj("a", ReposArr(<< >>))>>,
     <<JpdObj("a", ReposArr(<<RepoObj("r", PathsArr(<<Root(<<"i">>)>>))>>)),
       JpdObj("b", ReposArr(<<RepoObj("x", PathsArr(<<Root(<<"i", "i">>)>>))>>))>>,
     <<JpdObj("a", ReposArr(<<RepoObj("r", PathsArr(<<Root(<<"i">>)>>))>>)),
       JpdObj("b", ReposArr(<<RepoObj("r", NoPaths)>>))>>}

EventStores ==
    {StoreReject}
    \cup {StoreResponse(200, "object", JsonText(Doc(ts, act))) :
            ts \in EventTargetLists, act \in {"block", "warn", "audit"}}

EventResponses ==
    {AqlReject, AqlNoResults,
     AqlResponse(<<[repo |-> "r", path |-> <<"i">>, name |-> <<"i">>]>>),
     AqlResponse(<<[repo |-> "r", path |-> <<"i", "i">>, name |-> <<"i">>]>>)}

InitEvents ==
    /\ data \in EventRequests
    /\ store \in EventStores
    /\ pc = "start"
    /\ storeCalls = 0
    /\ config = DefaultConfig
    /\ relevantJPDs = << >>
    /\ jobs = << >>
    /\ queries = << >>
    /\ replies = << >>
    /\ handled = << >>
    /\ found = FALSE
    /\ foundResult = << >>
    /\ foundMessage = NoMessage
    /\ status = UPLOAD_UNSPECIFIED
    /\ message = NoMessage
    /\ response = NoResponse
    /\ \E d \in EventRequests : \E s \in EventStores : other = Fresh(d, s)
    /\ SyncIdle
    /\ DiffIdle

\* mutant: found, foundResult and foundMessage are declared at module level,
\* the two invocations share them
Switch_SharedFound ==
    /\ pc # "spawn"
    /\ other.pc # "none"
    /\ other' = [Running EXCEPT !.found = other.found,
                                !.foundResult = other.foundResult,
                                !.foundMessage = other.foundMessage]
    /\ data' = other.data
    /\ store' = other.store
    /\ pc' = other.pc
    /\ storeCalls' = other.storeCalls
    /\ config' = other.config
    /\ relevantJPDs' = other.relevantJPDs
    /\ jobs' = other.jobs
    /\ queries' = other.queries
    /\ replies' = other.replies
    /\ handled' = other.handled
    /\ status' = other.status
    /\ message' = other.message
    /\ response' = other.response
    /\ UNCHANGED <<syncVars, diffVars>>
    /\ UNCHANGED <<found, foundResult, foundMessage>>

\* The running invocation awaits or has ended, the other invocation goes on:
\* each one finds its own event and its own locals as it left them.
Switch ==
    /\ pc # "spawn"
    /\ other.pc # "none"
    /\ other' = Running
    /\ data' = other.data
    /\ store' = other.store
    /\ pc' = other.pc
    /\ storeCalls' = other.storeCalls
    /\ config' = other.config
    /\ relevantJPDs' = other.relevantJPDs
    /\ jobs' = other.jobs
    /\ queries' = other.queries
    /\ replies' = other.replies
    /\ handled' = other.handled
    /\ found' = other.found
    /\ foundResult' = other.foundResult
    /\ foundMessage' = other.foundMessage
    /\ status' = other.status
    /\ message' = other.message
    /\ response' = other.response
    /\ UNCHANGED <<syncVars, diffVars>>

NextEvents ==
    \/ Start
    \/ LoadConfigDone
    \/ SpawnJob
    \/ \E i \in 1..Len(jobs) : \E resp \in EventResponses : QueryComplete(i, resp)
    \/ Decide
    \/ Switch

SpecEvents == InitEvents /\ [][NextEvents]_vars

\* ------------------------------------------------------ a run to its end
\* One run of the handler in which every call made is answered: the store
\* call completes, every query posted completes (with a result or an error),
\* and the handler goes on whenever it can (its steps are continuations the
\* event loop runs as soon as the awaited call has completed).
InitLive ==
    /\ data \in EventRequests \cup {NoRepoPathRequest}
    /\ store \in EventStores
    /\ pc = "start"
    /\ storeCalls = 0
    /\ config = DefaultConfig
    /\ relevantJPDs = << >>
    /\ jobs = << >>
    /\ queries = << >>
    /\ replies = << >>
    /\ handled = << >>
    /\ found = FALSE
    /\ foundResult = << >>
    /\ foundMessage = NoMessage
    /\ status = UPLOAD_UNSPECIFIED
    /\ message = NoMessage
    /\ response = NoResponse
    /\ other = NoInvocation
    /\ SyncIdle
    /\ DiffIdle

\* the places a scope match can have in a run (no configuration of these runs
\* resolves to more than three scope matches)
JobPlaces == 1..3

SpecLive ==
    /\ InitLive
    /\ [][Next]_vars
    /\ WF_vars(Start)
    /\ WF_vars(LoadConfigDone)
    /\ WF_vars(SpawnJob)
    /\ \A i \in JobPlaces :
          WF_vars(i \in 1..Len(jobs) /\ \E resp \in AqlResponses : QueryComplete(i, resp))
    /\ WF_vars(Decide)

\* ------------------------------------------------------ scheduled sync worker
\* One run of the scheduled sync worker
\* (src/remote_repo_scheduled_sync_pull_worker/worker.ts and its second build,
\* which differs in the batch size).  Texts are sequences of characters.

\* String.prototype.split(';')
RECURSIVE SplitSemi(_)
SplitSemi(s) ==
    IF \A n \in 1..Len(s) : s[n] # ";"
    THEN <<s>>
    ELSE LET k == CHOOSE n \in 1..Len(s) :
                     s[n] = ";" /\ \A j \in 1..(n-1) : s[j] # ";"
         IN <<SubSeq(s, 1, k-1)>> \o SplitSemi(SubSeq(s, k+1, Len(s)))

\* String.prototype.trim, for blanks
RECURSIVE Trim(_)
Trim(s) ==
    IF Len(s) = 0 THEN s
    ELSE IF s[1] = " " THEN Trim(Tail(s))
    ELSE IF s[Len(s)] = " " THEN Trim(SubSeq(s, 1, Len(s) - 1))
    ELSE s

\* replace(/^\/+/, '')
RECURSIVE StripLeadingSlashes(_)
StripLeadingSlashes(s) ==
    IF Len(s) > 0 /\ s[1] = "/" THEN StripLeadingSlashes(Tail(s)) ELSE s

\* replace(/\/+$/, '')
RECURSIVE StripTrailingSlashes(_)
StripTrailingSlashes(s) ==
    IF Len(s) > 0 /\ s[Len(s)] = "/"
    THEN StripTrailingSlashes(SubSeq(s, 1, Len(s) - 1)) ELSE s

NonEmptyText(s) == Len(s) > 0

\* split(';').map(p => p.trim().replace(/^\/+/, '')).filter(p => p.length > 0)
parsePathsArg(pathsArg) ==
    IF Len(pathsArg) = 0 THEN << >>
    ELSE LET parts == SplitSemi(pathsArg)
         IN SelectSeq([k \in 1..Len(parts) |-> StripLeadingSlashes(Trim(parts[k]))],
                      NonEmptyText)

\* mutant: nothing is removed
uniqueKeepOrder_KeepsAll(items) == items

\* the items in the order of their first occurrence
RECURSIVE uniqueKeepOrder(_)
uniqueKeepOrder(items) ==
    IF Len(items) = 0 THEN << >>
    ELSE LET before == uniqueKeepOrder(SubSeq(items, 1, Len(items) - 1))
             last == items[Len(items)]
         IN IF \E k \in 1..Len(before) : before[k] = last
            THEN before ELSE Append(before, last)

\* String(value || defaultValue)
getProperty(value, defaultValue) == IF value # "" THEN value ELSE defaultValue

\* The number value NaN: an integer no index of a run comes near stands for it.
\* Sums with it are NaN, comparisons with it are false.
NaN == 0 - 99
IsNaN(x) == x = NaN
Plus(a, b) == IF IsNaN(a) \/ IsNaN(b) THEN NaN ELSE a + b
Less(a, b) == ~ IsNaN(a) /\ ~ IsNaN(b) /\ a < b

\* parseInt of the texts a maxWorkers property is given as: NaN for a text
\* that does not start with a number
parseInt(text) ==
    CASE text = "0" -> 0
      [] text = "1" -> 1
      [] text = "2" -> 2
      [] text = "5" -> 5
      [] text = "-1" -> 0 - 1
      [] OTHER -> NaN

maxWorkers == parseInt(getProperty(props.maxWorkers, "5"))
onlyDelta == getProperty(props.onlyDelta, "false") = "true"
dryRun == getProperty(props.dryRun, "false") = "true"

\* const batchSize = maxWorkers; the second build has Math.min(maxWorkers, 3),
\* which is NaN for NaN
batchSizeOf(b, workers) ==
    IF b = "variant" /\ ~ IsNaN(workers)
    THEN (IF workers < 3 THEN workers ELSE 3)
    ELSE workers

batchSize == batchSizeOf(build, maxWorkers)

\* Array.prototype.slice takes NaN as 0, an index below 0 from the end of the
\* array, and no index outside 0..length
SliceIndex(length, index) ==
    IF IsNaN(index) THEN 0
    ELSE IF index < 0
    THEN (IF length + index < 0 THEN 0 ELSE length + index)
    ELSE (IF index > length THEN length ELSE index)

\* paths.slice(i, i + batchSize) holds the paths BatchFrom..BatchTo
BatchFrom == SliceIndex(Len(allPaths), loopIndex) + 1
BatchTo == SliceIndex(Len(allPaths), Plus(loopIndex, batchSize))
Batch == {k \in 1..Len(allPaths) : BatchFrom <= k /\ k <= BatchTo}

\* the HTTP calls of the worker
RepoConfigCall == [kind |-> "repositories", path |-> << >>]
ListingCall(dir) == [kind |-> "listing", path |-> dir]
\* buildSyncEndpoint: /api/download/<repoKey>/<artifactPath>?content=none...
DownloadCall(artifactPath) == [kind |-> "download", path |-> artifactPath]

\* the messages of the response
SyncMsg(text, n, ok, failed, error) ==
    [text |-> text, n |-> n, ok |-> ok, failed |-> failed, error |-> error]
ScheduledEventFailed(error) ==
    SyncMsg("SCHEDULED_EVENT failed after <t>ms: <error.message>", 0, 0, 0, error)
NothingToSync == SyncMsg("No artifact paths provided. Nothing to sync.", 0, 0, 0, "")
NoFilesAfterExpansion == SyncMsg("No files to sync after path expansion.", 0, 0, 0, "")
DryRunMessage(n) ==
    SyncMsg("DRY-RUN: Would sync <n> artifacts to <targetRemoteRepo>", n, 0, 0, "")
CompletedWithFailures(n, ok, failed) ==
    SyncMsg("Completed with <failed> failures out of <n> items. Successfully processed: <ok>, Failed: <failed>",
            n, ok, failed, "")
SuccessfullySynced(ok) ==
    SyncMsg("Successfully synced <ok> artifacts to <targetRemoteRepo> in <t>ms", ok, ok, 0, "")

\* ---- inputs of the sync worker
Builds == {"worker", "variant"}

\* texts of the paths property
PathsProps ==
    { << >>,
      <<"f">>,
      <<"f", ";", "g">>,
      <<"f", ";", "g", ";", "h">>,
      <<"f", ";", "g", ";", "h", ";", "k">>,
      <<"f", ";", "/", "f", ";", " ", "g">>,
      <<";", "/", ";">>,
      <<"d", "/">>,
      <<"f", ";", "d", "/">>,
      <<"d", "/", ";", "d", "/", "f", ".", "j">> }

SyncProps ==
    [targetRemoteRepo : {"", "repo"},
     paths : PathsProps,
     upstreamUrl : {"", "up"},
     maxWorkers : {"", "0", "1", "2", "-1", "x"},
     onlyDelta : {"true", "false"},
     dryRun : {"true", "false"}]

\* what GET /api/repositories/<repoKey> may give: a rejection, a status other
\* than 200, a repository that is not remote, one without url, a remote one
RepoConfigAnswers == {"reject", "404", "local", "nourl", "remote"}

\* names an upstream listing links to
FileF == <<"f", ".", "j">>
FileG == <<"g", ".", "j">>
ParentLink == <<".", ".", "/">>
SubdirLink(c) == <<c, "/">>

\* The upstreams: what the listing of a directory links to, for each of them.
\*   flat     the parent directory and two files
\*   twice    the same file twice
\*   empty    no link
\*   deep     every directory has one further subdirectory
\*   nested   a file, a subdirectory with another file, a name without dot
\*   wide     six subdirectories, a file in the first of them
\*   prefixed links that carry the path of the directory
Upstreams == {"flat", "twice", "empty", "deep", "nested", "wide", "prefixed"}

ListingOf(u, directoryPath) ==
    LET top == directoryPath = <<"d", "/">>
        last == directoryPath[Len(directoryPath)]
    IN CASE u = "flat" -> <<ParentLink, FileF, FileG>>
         [] u = "twice" -> <<FileF, FileF>>
         [] u = "empty" -> << >>
         [] u = "deep" -> <<SubdirLink("s")>>
         [] u = "nested" -> IF top THEN <<FileF, <<"/", "s", "/">>, <<"n">>>>
                            ELSE <<FileG>>
         [] u = "wide" -> IF top
                          THEN <<SubdirLink("a"), SubdirLink("b"), SubdirLink("c"),
                                 SubdirLink("e"), SubdirLink("g"), SubdirLink("h")>>
                          ELSE IF last = "a" THEN <<FileF>> ELSE << >>
         [] u = "prefixed" -> IF top
                              THEN <<<<"d", "/", "f", ".", "j">>,
                                     <<"d", "/", "s", "/">>, <<"d", "/">>>>
                              ELSE <<FileF>>

\* the artifacts the cache repository <repoKey>-cache holds
CachedArtifacts == {<<"f">>, <<"d", "/", "f", ".", "j">>}

\* how GET /artifactory/api/storage/<cache>/<path> may end: with the answer of
\* the repository, or with a rejection that is no answer
CacheAnswers == {"answered", "reject"}

\* how a sync download call may end: status 200, another status, a rejection
PullAnswers == {"200", "404", "reject"}

\* the upload gate is not invoked
GateIdle ==
    /\ data = NoRepoPathRequest
    /\ store = StoreReject
    /\ pc = "none"
    /\ storeCalls = 0
    /\ config = DefaultConfig
    /\ relevantJPDs = << >>
    /\ jobs = << >>
    /\ queries = << >>
    /\ replies = << >>
    /\ handled = << >>
    /\ found = FALSE
    /\ foundResult = << >>
    /\ foundMessage = NoMessage
    /\ status = UPLOAD_UNSPECIFIED
    /\ message = NoMessage
    /\ response = NoResponse
    /\ other = NoInvocation

InitSync ==
    /\ GateIdle
    /\ DiffIdle
    /\ build \in Builds
    /\ props \in SyncProps
    /\ phase = "start"
    /\ finalUpstreamUrl = ""
    /\ allPaths = << >>
    /\ expandedPaths = << >>
    /\ expandIndex = 0
    /\ site = "none"
    /\ stack = << >>
    /\ cache = << >>
    /\ uncachedFiles = << >>
    /\ deltaIndex = 0
    /\ loopIndex = 0
    /\ outcome = << >>
    /\ calls = << >>
    /\ successCount = 0
    /\ failureCount = 0
    /\ result = NoSyncResponse

\* ---- the steps of a sync run
\* The handler is entered: the properties are read, the paths property is
\* parsed; without upstreamUrl the repository configuration is requested.
SyncStart ==
    /\ phase = "start"
    /\ IF props.targetRemoteRepo = ""
       THEN /\ phase' = "done"
            /\ result' = ScheduledEventFailed("targetRemoteRepo property is required")
            /\ UNCHANGED <<allPaths, finalUpstreamUrl, calls>>
       ELSE LET parsed == uniqueKeepOrder(parsePathsArg(props.paths))
            IN IF Len(parsed) = 0
               THEN /\ phase' = "done"
                    /\ result' = NothingToSync
                    /\ UNCHANGED <<allPaths, finalUpstreamUrl, calls>>
               ELSE /\ allPaths' = parsed
                    /\ result' = result
                    /\ IF props.upstreamUrl = ""
                       THEN /\ phase' = "detect"
                            /\ calls' = Append(calls, RepoConfigCall)
                            /\ UNCHANGED finalUpstreamUrl
                       ELSE /\ phase' = "expand"
                            /\ finalUpstreamUrl' = props.upstreamUrl
                            /\ UNCHANGED calls
    /\ UNCHANGED <<build, props, expandedPaths, expandIndex, loopIndex, outcome,
                   successCount, failureCount>>
    /\ UNCHANGED <<site, stack, cache, uncachedFiles, deltaIndex>>
    /\ UNCHANGED <<gateVars, diffVars>>

\* mutant: getRemoteRepositoryUpstreamUrl does not catch, a rejected
\* repository-config call ends the run in the catch of the handler
RepoConfigDone_RejectAborts(answer) ==
    /\ phase = "detect"
    /\ IF answer = "reject"
       THEN /\ phase' = "done"
            /\ result' = ScheduledEventFailed("request failed")
            /\ UNCHANGED finalUpstreamUrl
       ELSE /\ finalUpstreamUrl' = IF answer = "remote" THEN "up" ELSE ""
            /\ phase' = "expand"
            /\ UNCHANGED result
    /\ UNCHANGED <<build, props, allPaths, expandedPaths, expandIndex, loopIndex, outcome,
                   calls, successCount, failureCount>>
    /\ UNCHANGED <<site, stack, cache, uncachedFiles, deltaIndex>>
    /\ UNCHANGED <<gateVars, diffVars>>

\* getRemoteRepositoryUpstreamUrl has its answer: the url of a remote
\* repository, or null
RepoConfigDone(answer) ==
    /\ phase = "detect"
    /\ finalUpstreamUrl' = IF answer = "remote" THEN "up" ELSE ""
    /\ phase' = "expand"
    /\ UNCHANGED <<build, props, allPaths, expandedPaths, expandIndex, loopIndex, outcome,
                   calls, successCount, failureCount, result>>
    /\ UNCHANGED <<site, stack, cache, uncachedFiles, deltaIndex>>
    /\ UNCHANGED <<gateVars, diffVars>>

\* hrefs discoverFilesFromUpstream skips
SkippedHref(href) == href \in {<<".", ".", "/">>, <<".", "/">>, << >>, <<"/">>}

\* String.prototype.includes, for one character and for '..'
Includes(s, c) == \E k \in 1..Len(s) : s[k] = c
IncludesDotDot(s) == \E k \in 1..(Len(s) - 1) : s[k] = "." /\ s[k + 1] = "."

\* The subdirectory an href ending with "/" adds to subdirectories (none: the
\* empty list).  The first build compares the href, which ends with "/", with
\* the directory without its trailing slashes; the second build also drops
\* the path of the directory from the front of the name, and a name equal to
\* the directory.
subdirectoryOf(b, directoryPath, href) ==
    LET cleanHref == StripLeadingSlashes(href)
        dirName == StripTrailingSlashes(directoryPath)
        name == StripTrailingSlashes(cleanHref)
    IN IF b = "variant"
       THEN IF cleanHref # << >> /\ cleanHref # dirName /\ ~ IncludesDotDot(cleanHref)
            THEN LET subdirName == IF StartsWith(name, dirName \o <<"/">>)
                                   THEN SubSeq(name, Len(dirName) + 2, Len(name))
                                   ELSE name
                 IN IF subdirName # << >> /\ subdirName # dirName
                    THEN <<subdirName>> ELSE << >>
            ELSE << >>
       ELSE IF cleanHref # << >> /\ cleanHref # dirName THEN <<name>> ELSE << >>

\* The file path an href not ending with "/" adds to discoveredFiles: the
\* name must hold a '.' (every known extension does); the second build keeps
\* a name that already starts with the directory.
fileOf(b, directoryPath, href) ==
    LET cleanHref == StripLeadingSlashes(href)
        dirName == StripTrailingSlashes(directoryPath)
    IN IF Includes(cleanHref, ".")
       THEN <<IF b = "variant" /\ StartsWith(cleanHref, dirName \o <<"/">>)
              THEN cleanHref
              ELSE dirName \o <<"/">> \o cleanHref>>
       ELSE << >>

\* the loop over the hrefs of a listing
RECURSIVE filesOfListing(_, _, _)
filesOfListing(b, directoryPath, hrefs) ==
    IF Len(hrefs) = 0 THEN << >>
    ELSE (IF SkippedHref(Head(hrefs)) \/ EndsWith(Head(hrefs), "/")
          THEN << >> ELSE fileOf(b, directoryPath, Head(hrefs)))
         \o filesOfListing(b, directoryPath, Tail(hrefs))

RECURSIVE subdirectoriesOfListing(_, _, _)
subdirectoriesOfListing(b, directoryPath, hrefs) ==
    IF Len(hrefs) = 0 THEN << >>
    ELSE (IF ~ SkippedHref(Head(hrefs)) /\ EndsWith(Head(hrefs), "/")
          THEN subdirectoryOf(b, directoryPath, Head(hrefs)) ELSE << >>)
         \o subdirectoriesOfListing(b, directoryPath, Tail(hrefs))

\* subdirectories.slice(0, 5)
FirstFive(items) == SubSeq(items, 1, IF Len(items) < 5 THEN Len(items) ELSE 5)

\* a call of discoverFilesFromUpstream: its directory, the files found so far,
\* the subdirectories it has still to go into
Frame(directoryPath, files, subdirs) ==
    [directoryPath |-> directoryPath, discoveredFiles |-> files, subdirectories |-> subdirs]

\* where the handler goes when expandDirectoryPaths has handled idx entries
\* and built list: on with the loop, then (second build, onlyDelta, a list
\* that is not empty) into filterDeltaFiles, else back to the handler
AfterEntry(idx, list) ==
    IF idx < Len(allPaths) THEN "expand"
    ELSE IF build = "variant" /\ onlyDelta /\ Len(list) > 0 THEN "delta"
    ELSE "expanded"

\* what expandDirectoryPaths returns: the expanded paths, or what
\* filterDeltaFiles made of them
ReturnedPaths ==
    IF build = "variant" /\ onlyDelta /\ Len(expandedPaths) > 0
    THEN uncachedFiles ELSE expandedPaths

\* the per-file states filterDeltaFiles starts with
Unchecked(idx, list) ==
    IF AfterEntry(idx, list) = "delta" THEN [k \in 1..Len(list) |-> "unchecked"] ELSE << >>

\* expandDirectoryPaths handles one entry: a file path is kept as it is; for a
\* directory path (ending with "/") discoverFilesFromUpstream is called when an
\* upstream url is known, and requests the listing of the directory.  The
\* first listing requested decides which upstream the run talks to.
ExpandPath(u) ==
    /\ phase = "expand"
    /\ expandIndex < Len(allPaths)
    /\ LET path == allPaths[expandIndex + 1]
       IN IF EndsWith(path, "/") /\ finalUpstreamUrl # ""
          THEN /\ site' = IF site = "none" THEN u ELSE site
               /\ stack' = <<Frame(path, << >>, << >>)>>
               /\ calls' = Append(calls, ListingCall(path))
               /\ phase' = "listing"
               /\ UNCHANGED <<expandedPaths, expandIndex, cache>>
          ELSE /\ expandedPaths' = IF EndsWith(path, "/") THEN expandedPaths
                                   ELSE Append(expandedPaths, path)
               /\ expandIndex' = expandIndex + 1
               /\ phase' = AfterEntry(expandIndex + 1, expandedPaths')
               /\ cache' = Unchecked(expandIndex + 1, expandedPaths')
               /\ UNCHANGED <<site, stack, calls>>
    /\ UNCHANGED <<build, props, finalUpstreamUrl, allPaths, uncachedFiles, deltaIndex,
                   loopIndex, outcome, successCount, failureCount, result>>
    /\ UNCHANGED <<gateVars, diffVars>>

\* The listing of the innermost call has its answer.  With status 200 the
\* hrefs are sorted into files and subdirectories; any other end (another
\* status, a rejection) makes the call return no file.
ListingDone(ok) ==
    /\ phase = "listing"
    /\ LET top == stack[Len(stack)]
           hrefs == ListingOf(site, top.directoryPath)
       IN stack' = [stack EXCEPT ![Len(stack)] =
                       IF ok
                       THEN Frame(top.directoryPath,
                                  filesOfListing(build, top.directoryPath, hrefs),
                                  FirstFive(subdirectoriesOfListing(build, top.directoryPath, hrefs)))
                       ELSE Frame(top.directoryPath, << >>, << >>)]
    /\ phase' = "recurse"
    /\ UNCHANGED <<build, props, finalUpstreamUrl, allPaths, expandedPaths, expandIndex,
                   site, cache, uncachedFiles, deltaIndex, loopIndex, outcome, calls,
                   successCount, failureCount, result>>
    /\ UNCHANGED <<gateVars, diffVars>>

\* The innermost call goes into its next subdirectory: discoverFilesFromUpstream
\* calls itself for <directory>/<subdir> and that call requests its listing.
\* The second build leaves out a subdirectory named as the directory.  (The
\* calls are followed to MaxDepth calls within each other.)
Descend ==
    /\ phase = "recurse"
    /\ LET top == stack[Len(stack)]
           dirName == StripTrailingSlashes(top.directoryPath)
       IN /\ Len(top.subdirectories) > 0
          /\ LET subdir == Head(top.subdirectories)
                 rest == Frame(top.directoryPath, top.discoveredFiles, Tail(top.subdirectories))
                 subdirPath == dirName \o <<"/">> \o subdir
             IN IF build = "variant" /\ subdir = dirName
                THEN /\ stack' = [stack EXCEPT ![Len(stack)] = rest]
                     /\ UNCHANGED <<phase, calls>>
                ELSE /\ Len(stack) < MaxDepth
                     /\ stack' = Append([stack EXCEPT ![Len(stack)] = rest],
                                        Frame(subdirPath, << >>, << >>))
                     /\ calls' = Append(calls, ListingCall(subdirPath))
                     /\ phase' = "listing"
    /\ UNCHANGED <<build, props, finalUpstreamUrl, allPaths, expandedPaths, expandIndex,
                   site, cache, uncachedFiles, deltaIndex, loopIndex, outcome,
                   successCount, failureCount, result>>
    /\ UNCHANGED <<gateVars, diffVars>>

\* The innermost call has no subdirectory left and returns its files: to the
\* call that called it, which adds them to its own, or to
\* expandDirectoryPaths, which adds them to the expanded paths and goes on.
Return ==
    /\ phase = "recurse"
    /\ LET top == stack[Len(stack)]
       IN /\ Len(top.subdirectories) = 0
          /\ IF Len(stack) > 1
             THEN /\ stack' = [k \in 1..(Len(stack) - 1) |->
                                  IF k = Len(stack) - 1
                                  THEN Frame(stack[k].directoryPath,
                                             stack[k].discoveredFiles \o top.discoveredFiles,
                                             stack[k].subdirectories)
                                  ELSE stack[k]]
                  /\ UNCHANGED <<phase, expandedPaths, expandIndex, cache>>
             ELSE /\ stack' = << >>
                  /\ expandedPaths' = expandedPaths \o top.discoveredFiles
                  /\ expandIndex' = expandIndex + 1
                  /\ phase' = AfterEntry(expandIndex + 1, expandedPaths')
                  /\ cache' = Unchecked(expandIndex + 1, expandedPaths')
    /\ UNCHANGED <<build, props, finalUpstreamUrl, allPaths, site, uncachedFiles,
                   deltaIndex, loopIndex, outcome, calls, successCount, failureCount,
                   result>>
    /\ UNCHANGED <<gateVars, diffVars>>

\* ---- filterDeltaFiles (second build)
\* const batchSize = 5; const maxUncachedFiles = 50
DeltaBatchSize == 5
MaxUncachedFiles == 50

\* GET /artifactory/api/storage/<repoKey>-cache/<filePath>
StorageCall(filePath) == [kind |-> "storage", path |-> filePath]

\* filePaths.slice(i, i + batchSize)
DeltaBatchOf(idx) ==
    {k \in 1..Len(expandedPaths) : idx < k /\ k <= idx + DeltaBatchSize}

RECURSIVE StorageCalls(_, _)
StorageCalls(from, to) ==
    IF from > to THEN << >>
    ELSE <<StorageCall(expandedPaths[from])>> \o StorageCalls(from + 1, to)

\* isFileCached: status 200 of the storage call; a rejection counts as not cached
isFileCached(filePath, answer) == answer = "answered" /\ filePath \in CachedArtifacts

\* The head of the loop of filterDeltaFiles.  While file paths are left, the
\* 30 seconds have not passed (they cannot have before the first batch) and
\* fewer than 50 uncached files are known, the storage calls of the next
\* batch are made.  Else the uncached files are returned.
DeltaBatch(timeUp) ==
    /\ phase = "delta"
    /\ timeUp => deltaIndex > 0
    /\ IF deltaIndex < Len(expandedPaths) /\ ~ timeUp /\ Len(uncachedFiles) < MaxUncachedFiles
       THEN /\ phase' = "checking"
            /\ cache' = [k \in 1..Len(cache) |->
                            IF k \in DeltaBatchOf(deltaIndex) THEN "pending" ELSE cache[k]]
            /\ calls' = calls \o StorageCalls(deltaIndex + 1,
                                              IF deltaIndex + DeltaBatchSize < Len(expandedPaths)
                                              THEN deltaIndex + DeltaBatchSize
                                              ELSE Len(expandedPaths))
       ELSE /\ phase' = "expanded"
            /\ UNCHANGED <<cache, calls>>
    /\ UNCHANGED <<build, props, finalUpstreamUrl, allPaths, expandedPaths, expandIndex, site, stack,
                   uncachedFiles, deltaIndex, loopIndex, outcome, successCount,
                   failureCount, result>>
    /\ UNCHANGED <<gateVars, diffVars>>

\* The storage call for file path k has ended: a cached file is counted, any
\* other is added to the uncached files, in the order the calls end.
CacheChecked(k, answer) ==
    /\ phase = "checking"
    /\ k \in 1..Len(cache)
    /\ cache[k] = "pending"
    /\ IF isFileCached(expandedPaths[k], answer)
       THEN /\ cache' = [cache EXCEPT ![k] = "cached"]
            /\ UNCHANGED uncachedFiles
       ELSE /\ cache' = [cache EXCEPT ![k] = "uncached"]
            /\ uncachedFiles' = Append(uncachedFiles, expandedPaths[k])
    /\ UNCHANGED <<build, props, phase, finalUpstreamUrl, allPaths, expandedPaths,
                   expandIndex, site, stack, deltaIndex, loopIndex, outcome, calls,
                   successCount, failureCount, result>>
    /\ UNCHANGED <<gateVars, diffVars>>

\* Promise.all of the batch of storage calls has resolved; after the short
\* wait between two batches the loop moves on.
DeltaBatchDone ==
    /\ phase = "checking"
    /\ \A k \in 1..Len(cache) : cache[k] # "pending"
    /\ deltaIndex' = deltaIndex + DeltaBatchSize
    /\ phase' = "delta"
    /\ UNCHANGED <<build, props, finalUpstreamUrl, allPaths, expandedPaths, expandIndex,
                   site, stack, cache, uncachedFiles, loopIndex, outcome, calls,
                   successCount, failureCount, result>>
    /\ UNCHANGED <<gateVars, diffVars>>

\* mutant: the handler does not return in dry-run mode, it leaves it to pullOne
\* not to make the call
AfterExpand_NoDryRunReturn ==
    /\ phase = "expanded"
    /\ LET expanded == uniqueKeepOrder(ReturnedPaths)
       IN /\ allPaths' = expanded
          /\ IF Len(expanded) = 0
             THEN /\ phase' = "done"
                  /\ result' = NoFilesAfterExpansion
                  /\ UNCHANGED outcome
             ELSE /\ phase' = "batch"
                  /\ outcome' = [k \in 1..Len(expanded) |-> "unissued"]
                  /\ UNCHANGED result
    /\ UNCHANGED <<build, props, finalUpstreamUrl, expandedPaths, expandIndex, loopIndex,
                   calls, successCount, failureCount>>
    /\ UNCHANGED <<site, stack, cache, uncachedFiles, deltaIndex>>
    /\ UNCHANGED <<gateVars, diffVars>>

\* expandDirectoryPaths has returned: duplicates are removed; the run ends when nothing
\* is left or in dry-run mode, else pullFilesParallel is entered.
AfterExpand ==
    /\ phase = "expanded"
    /\ LET expanded == uniqueKeepOrder(ReturnedPaths)
       IN /\ allPaths' = expanded
          /\ IF Len(expanded) = 0
             THEN /\ phase' = "done"
                  /\ result' = NoFilesAfterExpansion
                  /\ UNCHANGED outcome
             ELSE IF dryRun
             THEN /\ phase' = "done"
                  /\ result' = DryRunMessage(Len(expanded))
                  /\ UNCHANGED outcome
             ELSE /\ phase' = "batch"
                  /\ outcome' = [k \in 1..Len(expanded) |-> "unissued"]
                  /\ UNCHANGED result
    /\ UNCHANGED <<build, props, finalUpstreamUrl, expandedPaths, expandIndex, loopIndex,
                   calls, successCount, failureCount>>
    /\ UNCHANGED <<site, stack, cache, uncachedFiles, deltaIndex>>
    /\ UNCHANGED <<gateVars, diffVars>>

\* the download calls of the paths of the batch, in their order
RECURSIVE DownloadCalls(_, _)
DownloadCalls(from, to) ==
    IF from > to THEN << >>
    ELSE <<DownloadCall(allPaths[from])>> \o DownloadCalls(from + 1, to)

\* The head of the batch loop.  While paths are left, pullOne is called for
\* every path of the next batch: it makes its call (none in dry-run mode, where
\* it returns true at once); then Promise.all is awaited.  When no path is
\* left the handler returns the counts.
StartBatch ==
    /\ phase = "batch"
    /\ IF Less(loopIndex, Len(allPaths))
       THEN /\ phase' = "pulling"
            /\ IF dryRun
               THEN /\ outcome' = [k \in 1..Len(allPaths) |->
                                      IF k \in Batch THEN "ok" ELSE outcome[k]]
                    /\ UNCHANGED calls
               ELSE /\ outcome' = [k \in 1..Len(allPaths) |->
                                      IF k \in Batch THEN "pending" ELSE outcome[k]]
                    /\ calls' = calls \o DownloadCalls(BatchFrom, BatchTo)
            /\ UNCHANGED result
       ELSE /\ phase' = "done"
            /\ result' = IF failureCount > 0
                         THEN CompletedWithFailures(Len(allPaths), successCount, failureCount)
                         ELSE SuccessfullySynced(successCount)
            /\ UNCHANGED <<outcome, calls>>
    /\ UNCHANGED <<build, props, finalUpstreamUrl, allPaths, expandedPaths, expandIndex,
                   loopIndex, successCount, failureCount>>
    /\ UNCHANGED <<site, stack, cache, uncachedFiles, deltaIndex>>
    /\ UNCHANGED <<gateVars, diffVars>>

\* mutant: pullOne and the batch do not catch, a rejected call ends the run
PullComplete_RejectAborts(k, answer) ==
    /\ phase = "pulling"
    /\ k \in 1..Len(outcome)
    /\ outcome[k] = "pending"
    /\ outcome' = [outcome EXCEPT ![k] = IF answer = "200" THEN "ok" ELSE "failed"]
    /\ IF answer = "reject"
       THEN /\ phase' = "done"
            /\ result' = ScheduledEventFailed("request failed")
       ELSE UNCHANGED <<phase, result>>
    /\ UNCHANGED <<build, props, finalUpstreamUrl, allPaths, expandedPaths, expandIndex,
                   loopIndex, calls, successCount, failureCount>>
    /\ UNCHANGED <<site, stack, cache, uncachedFiles, deltaIndex>>
    /\ UNCHANGED <<gateVars, diffVars>>

\* The call of pullOne for path k has ended: true for status 200, false for
\* another status and for a rejection.
PullComplete(k, answer) ==
    /\ phase = "pulling"
    /\ k \in 1..Len(outcome)
    /\ outcome[k] = "pending"
    /\ outcome' = [outcome EXCEPT ![k] = IF answer = "200" THEN "ok" ELSE "failed"]
    /\ UNCHANGED <<build, props, phase, finalUpstreamUrl, allPaths, expandedPaths,
                   expandIndex, loopIndex, calls, successCount, failureCount, result>>
    /\ UNCHANGED <<site, stack, cache, uncachedFiles, deltaIndex>>
    /\ UNCHANGED <<gateVars, diffVars>>

\* Promise.all of the batch has resolved: the results are counted; if paths
\* are left the delay is awaited, else the loop index moves on.
BatchDone ==
    /\ phase = "pulling"
    /\ \A k \in Batch : outcome[k] # "pending"
    /\ successCount' = successCount + Cardinality({k \in Batch : outcome[k] = "ok"})
    /\ failureCount' = failureCount + Cardinality({k \in Batch : outcome[k] = "failed"})
    /\ IF Less(Plus(loopIndex, batchSize), Len(allPaths))
       THEN /\ phase' = "delay"
            /\ UNCHANGED loopIndex
       ELSE /\ phase' = "batch"
            /\ loopIndex' = Plus(loopIndex, batchSize)
    /\ UNCHANGED <<build, props, finalUpstreamUrl, allPaths, expandedPaths, expandIndex,
                   outcome, calls, result>>
    /\ UNCHANGED <<site, stack, cache, uncachedFiles, deltaIndex>>
    /\ UNCHANGED <<gateVars, diffVars>>

\* the delay between two batches has passed: i += batchSize (the loop is not
\* followed further than MaxRewind below 0)
DelayDone ==
    /\ phase = "delay"
    /\ Plus(loopIndex, batchSize) >= 0 - MaxRewind
    /\ loopIndex' = Plus(loopIndex, batchSize)
    /\ phase' = "batch"
    /\ UNCHANGED <<build, props, finalUpstreamUrl, allPaths, expandedPaths, expandIndex,
                   outcome, calls, successCount, failureCount, result>>
    /\ UNCHANGED <<site, stack, cache, uncachedFiles, deltaIndex>>
    /\ UNCHANGED <<gateVars, diffVars>>

NextSync ==
    \/ SyncStart
    \/ \E answer \in RepoConfigAnswers : RepoConfigDone(answer)
    \/ \E u \in Upstreams : ExpandPath(u)
    \/ \E ok \in BOOLEAN : ListingDone(ok)
    \/ Descend
    \/ Return
    \/ \E timeUp \in BOOLEAN : DeltaBatch(timeUp)
    \/ \E k \in 1..Len(cache) : \E answer \in CacheAnswers : CacheChecked(k, answer)
    \/ DeltaBatchDone
    \/ AfterExpand
    \/ StartBatch
    \/ \E k \in 1..Len(outcome) : \E answer \in PullAnswers : PullComplete(k, answer)
    \/ BatchDone
    \/ DelayDone

SpecSync == InitSync /\ [][NextSync]_vars

\* ------------------------------------------------------ build-diff worker
\* One run of the AFTER_BUILD_INFO_SAVE worker that compares a build with an
\* earlier one (src/unnamed/part_003).  Build numbers and uris are sequences
\* of characters.

\* a value that an if takes as false: null or the empty text
Falsy(x) == x = Null \/ Len(x) = 0

\* uri.substring(1)
Substring1(uri) == IF Len(uri) = 0 THEN uri ELSE Tail(uri)

\* builds.findIndex(build => build.uri.substring(1) === currentBuildNumber),
\* counted from 0; -1 when no build has the number
findIndex(builds, currentBuildNumber) ==
    IF \E k \in 1..Len(builds) : Substring1(builds[k]) = currentBuildNumber
    THEN (CHOOSE k \in 1..Len(builds) :
              /\ Substring1(builds[k]) = currentBuildNumber
              /\ \A j \in 1..(k - 1) : Substring1(builds[j]) # currentBuildNumber) - 1
    ELSE 0 - 1

\* parseInt(context.secrets.get('prev_n_build_run_to_compare') || '1', 10)
nthBuildToCompare(secret) == parseInt(IF secret # "" THEN secret ELSE "1")

\* What GET /artifactory/api/build/<name> may give: a rejection, a response
\* with another status than 200, a response without data, or the list of the
\* builds (newest first).
BuildsReject == [kind |-> "reject", status |-> 0, hasData |-> FALSE, buildsNumbers |-> << >>]
BuildsResponse(code, hasData, uris) ==
    [kind |-> "response", status |-> code, hasData |-> hasData, buildsNumbers |-> uris]

\* getPreviousBuildNumber: the number of the build n places after the current
\* one in the list, null when the call fails (every error is caught), when the
\* status is not 200, when the current build is not listed, and when no build
\* is at that place
getPreviousBuildNumber(answer, currentBuildNumber, n) ==
    IF answer.kind = "reject" \/ answer.status # 200 \/ ~ answer.hasData
    THEN Null
    ELSE LET builds == answer.buildsNumbers
             currentIndex == findIndex(builds, currentBuildNumber)
             targetIndex == Plus(currentIndex, n)
         IN IF currentIndex >= 0 /\ ~ Less(targetIndex, 0) /\ ~ IsNaN(targetIndex)
               /\ Less(targetIndex, Len(builds))
            THEN Substring1(builds[targetIndex + 1])
            ELSE Null

\* What POST /access/api/v1/tokens may give: a rejection, a response without
\* data, or data with the access_token named
TokenReject == [kind |-> "reject", hasData |-> FALSE, access_token |-> << >>]
TokenResponse(hasData, token) ==
    [kind |-> "response", hasData |-> hasData, access_token |-> token]

\* generateAccessToken: the token of the response, null without one and when
\* the call fails
generateAccessToken(answer) ==
    IF answer.kind = "reject" THEN Null
    ELSE IF ~ answer.hasData \/ Len(answer.access_token) = 0 THEN Null
    ELSE answer.access_token

\* the calls of the worker
BuildsCall(projectKey) == [kind |-> "builds", project |-> projectKey,
                           old |-> << >>, new |-> << >>, token |-> << >>]
TokenCall == [kind |-> "token", project |-> "", old |-> << >>, new |-> << >>,
              token |-> << >>]
\* constructBuildDiffRequest and the Cookie header
DiffCall(currentBuild, previousBuild, token) ==
    [kind |-> "diff", project |-> "", old |-> previousBuild, new |-> currentBuild,
     token |-> token]

\* the messages of the response
NoPreviousBuild == [message |-> "No previous build found"]
NoAccessToken == [message |-> "Failed to generate access token"]
Proceed == [message |-> "proceed"]
DiffError == [message |-> "Error: <error.message>"]

\* ---- inputs of the build-diff worker
BuildNumbers == {<<"1">>, <<"2">>, <<"3">>}

BuildEvents ==
    [hasBuild : BOOLEAN, number : BuildNumbers, projectKey : {"", "p"},
     nth : {"", "1", "2", "-1", "x"}]

BuildsAnswers ==
    {BuildsReject,
     BuildsResponse(204, FALSE, << >>),
     BuildsResponse(200, FALSE, << >>),
     BuildsResponse(200, TRUE, << >>),
     BuildsResponse(200, TRUE, <<<<"/", "3">>>>),
     BuildsResponse(200, TRUE, <<<<"/", "3">>, <<"/", "2">>>>),
     BuildsResponse(200, TRUE, <<<<"/", "3">>, <<"/", "2">>, <<"/", "1">>>>),
     BuildsResponse(200, TRUE, <<<<"/", "2">>, <<"/">>>>)}

TokenAnswers ==
    {TokenReject, TokenResponse(FALSE, << >>), TokenResponse(TRUE, << >>),
     TokenResponse(TRUE, <<"t">>)}

\* how the diff request may end: a rejection, a response without data (the
\* formatting of the table then throws), a response with data
DiffAnswers == {"reject", "nodata", "data"}

InitDiff ==
    /\ GateIdle
    /\ SyncIdle
    /\ buildEvent \in BuildEvents
    /\ diffPc = "start"
    /\ diffCalls = << >>
    /\ previousBuildNumber = Null
    /\ accessToken = Null
    /\ diffResponse = NoDiffResponse

\* ---- the steps of a build-diff run
\* The handler is entered.  Reading data.build.name of an event without build
\* throws, which the catch turns into the error message; else the secrets are
\* read and getPreviousBuildNumber requests the builds.
DiffStart ==
    /\ diffPc = "start"
    /\ IF ~ buildEvent.hasBuild
       THEN /\ diffPc' = "done"
            /\ diffResponse' = DiffError
            /\ UNCHANGED diffCalls
       ELSE /\ diffPc' = "builds"
            /\ diffCalls' = Append(diffCalls, BuildsCall(buildEvent.projectKey))
            /\ UNCHANGED diffResponse
    /\ UNCHANGED <<buildEvent, previousBuildNumber, accessToken>>
    /\ UNCHANGED <<gateVars, syncVars>>

\* getPreviousBuildNumber has returned: without previous build number the
\* handler returns, else generateAccessToken requests the token.
BuildsDone(answer) ==
    /\ diffPc = "builds"
    /\ previousBuildNumber' =
          getPreviousBuildNumber(answer, buildEvent.number, nthBuildToCompare(buildEvent.nth))
    /\ IF Falsy(previousBuildNumber')
       THEN /\ diffPc' = "done"
            /\ diffResponse' = NoPreviousBuild
            /\ UNCHANGED diffCalls
       ELSE /\ diffPc' = "token"
            /\ diffCalls' = Append(diffCalls, TokenCall)
            /\ UNCHANGED diffResponse
    /\ UNCHANGED <<buildEvent, accessToken>>
    /\ UNCHANGED <<gateVars, syncVars>>

\* mutant: the handler does not test the token and posts the diff request
\* with whatever generateAccessToken returned
TokenDone_Unchecked(answer) ==
    /\ diffPc = "token"
    /\ accessToken' = generateAccessToken(answer)
    /\ diffPc' = "diff"
    /\ diffCalls' = Append(diffCalls,
                           DiffCall(buildEvent.number, previousBuildNumber, accessToken'))
    /\ UNCHANGED <<buildEvent, previousBuildNumber, diffResponse>>
    /\ UNCHANGED <<gateVars, syncVars>>

\* generateAccessToken has returned: without token the handler returns, else
\* the diff request is posted with the token in its Cookie header.
TokenDone(answer) ==
    /\ diffPc = "token"
    /\ accessToken' = generateAccessToken(answer)
    /\ IF Falsy(accessToken')
       THEN /\ diffPc' = "done"
            /\ diffResponse' = NoAccessToken
            /\ UNCHANGED diffCalls
       ELSE /\ diffPc' = "diff"
            /\ diffCalls' = Append(diffCalls,
                                   DiffCall(buildEvent.number, previousBuildNumber, accessToken'))
            /\ UNCHANGED diffResponse
    /\ UNCHANGED <<buildEvent, previousBuildNumber>>
    /\ UNCHANGED <<gateVars, syncVars>>

\* The diff request has ended.  A rejection, and a response whose data
\* formatBuildDiffToHtml cannot read, end in the catch of the handler, which
\* returns the error as the message; else the table is logged and the handler
\* returns "proceed".
DiffDone(answer) ==
    /\ diffPc = "diff"
    /\ diffPc' = "done"
    /\ diffResponse' = IF answer = "data" THEN Proceed ELSE DiffError
    /\ UNCHANGED <<buildEvent, diffCalls, previousBuildNumber, accessToken>>
    /\ UNCHANGED <<gateVars, syncVars>>

NextDiff ==
    \/ DiffStart
    \/ \E answer \in BuildsAnswers : BuildsDone(answer)
    \/ \E answer \in TokenAnswers : TokenDone(answer)
    \/ \E answer \in DiffAnswers : DiffDone(answer)

SpecDiff == InitDiff /\ [][NextDiff]_vars

\* ====================================================== claims
\* some query of the run has returned a non-empty result list
SomeMatchReturned ==
    \E i \in 1..Len(replies) :
        replies[i].kind = "response" /\ replies[i].hasResults /\ Len(replies[i].results) > 0

\* every query of the run has failed or returned no item
NoMatchReturned ==
    \A i \in 1..Len(replies) :
        \/ replies[i].kind = "reject"
        \/ replies[i].kind = "response" /\ (~ replies[i].hasResults \/ replies[i].results = << >>)

SomeQueryFailed == \E i \in 1..Len(replies) : replies[i].kind = "reject"

\* C1 -- Short-circuit correctness: once a query has returned a non-empty
\* result list, the run does not raise and the status it returns is STOP or
\* WARN, never PROCEED, whatever the order of the completions.
C1_ShortCircuitCorrect ==
    SomeMatchReturned =>
        /\ pc # "raised"
        /\ pc = "returned" => response.status \in {UPLOAD_STOP, UPLOAD_WARN}

\* C1 witness: a returned run with two queries where the match arrived from
\* the second target and the first returned nothing.
C1_Witness ==
    /\ pc = "returned"
    /\ Len(replies) >= 2
    /\ replies[1] = AqlResponse(<< >>)
    /\ replies[2].kind = "response" /\ Len(replies[2].results) > 0

\* the resolver selects nothing: every target has repo scopes, every scope has
\* roots, all of them strings, and none matches the directory of the upload
ScopeIsEmpty(cfg, dir) ==
    \A j \in 1..Len(cfg.jpds) :
        /\ Len(cfg.jpds[j].repos) > 0
        /\ \A r \in 1..Len(cfg.jpds[j].repos) :
            LET paths == cfg.jpds[j].repos[r].paths
            IN /\ paths.kind = "array"
               /\ Len(paths.items) > 0
               /\ \A k \in 1..Len(paths.items) :
                    /\ paths.items[k].isString
                    /\ dir # paths.items[k].s
                    /\ ~ StartsWith(dir, IF EndsWith(paths.items[k].s, "/")
                                         THEN paths.items[k].s
                                         ELSE paths.items[k].s \o <<"/">>)

\* the handler has passed the load of the configuration
ConfigLoaded == pc \notin {"start", "loadConfig"}

UploadIsProcessable == data.hasRepoPath /\ data.key # "" /\ data.path # EmptyStr

\* C2 -- No-scope fast path: a processable upload for which the resolver
\* selects no scope is answered PROCEED at once and no query is ever posted.
C2_NoScopeFastPath ==
    (UploadIsProcessable /\ ConfigLoaded
        /\ ScopeIsEmpty(config, getDirectoryPathFromPath(data.path)))
    => /\ pc = "returned"
       /\ response.status = UPLOAD_PROCEED
       /\ queries = << >>

\* C2 witness: a configuration with a rooted scope, none of whose roots
\* matches the upload, has been loaded.
C2_Witness ==
    /\ UploadIsProcessable /\ ConfigLoaded
    /\ Len(config.jpds) > 0
    /\ ScopeIsEmpty(config, getDirectoryPathFromPath(data.path))

\* the run went through the search step and returned
SearchReturned == pc = "returned" /\ Len(jobs) > 0

\* C3 -- Policy mapping: after the search, no duplicate gives PROCEED for
\* every action value; a duplicate gives STOP under "block" and WARN under
\* "warn".
C3_PolicyMapping ==
    SearchReturned =>
        /\ ~ SomeMatchReturned => response.status = UPLOAD_PROCEED
        /\ (SomeMatchReturned /\ config.action = "block") => response.status = UPLOAD_STOP
        /\ (SomeMatchReturned /\ config.action = "warn") => response.status = UPLOAD_WARN

\* C3 witness: a duplicate was found under action "warn" and the run returned.
C3_Witness ==
    SearchReturned /\ SomeMatchReturned /\ config.action = "warn"

\* C4 -- Fail-closed on action error: a duplicate found under an action that
\* is neither "block" nor "warn" (absent included) gives STOP with the
\* misconfiguration message in place of the message naming the match.
C4_FailClosedOnAction ==
    (SearchReturned /\ SomeMatchReturned /\ config.action \notin {"block", "warn"})
    => /\ response.status = UPLOAD_STOP
       /\ response.message = UnknownAction
       /\ response.message # foundMessage

\* C4 witness: a duplicate was found while the document had no action field.
C4_Witness ==
    SearchReturned /\ SomeMatchReturned /\ config.action = Undefined

\* C5 -- Fail-open on remote error: a failed query counts as an empty one.
\* A run never raises after posting a query; a returned run in which every
\* query failed or was empty is PROCEED; a failed query leaves the other jobs
\* to settle and a match one of them returns still gates the upload.
C5_FailOpenOnRemoteError ==
    /\ (pc = "raised") => queries = << >>
    /\ (SearchReturned /\ NoMatchReturned) => response.status = UPLOAD_PROCEED
    /\ (SearchReturned /\ SomeQueryFailed) =>
          /\ \A i \in 1..Len(jobs) : jobs[i] = "settled"
          /\ SomeMatchReturned => response.status \in {UPLOAD_STOP, UPLOAD_WARN}

\* C5 witness: the first query failed, a later one returned a match, and the
\* run returned.
C5_Witness ==
    /\ SearchReturned
    /\ replies[1].kind = "reject"
    /\ SomeMatchReturned

\* C6 -- Validation error: an upload event without a non-empty repoKey and
\* path is answered STOP with the fixed message, without raising, and neither
\* the configuration store nor a target is contacted.
C6_ValidationError ==
    (~ UploadIsProcessable /\ pc # "start")
    => /\ pc = "returned"
       /\ response.status = UPLOAD_STOP
       /\ response.message = EssentialDataMissing
       /\ storeCalls = 0
       /\ queries = << >>

\* C6 witness: an event with a repoKey and an empty path has been answered.
C6_Witness ==
    data.hasRepoPath /\ data.key # "" /\ data.path = EmptyStr /\ pc = "returned"

\* the store call failed, answered with a status other than 200, or returned
\* text that is empty or not parsable
StoreFailed ==
    \/ store.kind = "reject"
    \/ store.status # 200
    \/ store.text.kind \in {"empty", "garbage"}

\* C7 -- Fail-open on configuration errors: for a processable upload, a failed
\* store call, a non-200 answer, or empty or unparsable text give the empty
\* configuration with action "warn", the decision PROCEED, and no query.
C7_FailOpenOnConfigError ==
    (UploadIsProcessable /\ StoreFailed /\ ConfigLoaded)
    => /\ config = [jpds |-> << >>, action |-> "warn"]
       /\ pc = "returned"
       /\ response.status = UPLOAD_PROCEED
       /\ queries = << >>

\* C7 witness: the store answered 404 with a body and the run returned.
C7_Witness ==
    UploadIsProcessable /\ store.kind = "response" /\ store.status # 200 /\ pc = "returned"

\* the resolver ran to its end for a processable upload
Resolved == UploadIsProcessable /\ ConfigLoaded /\ pc # "raised"

uploadDirectory == getDirectoryPathFromPath(data.path)

\* the scope (target j, repo r) of the configuration is among the scope matches
Selected(j, r) ==
    \E m \in 1..Len(relevantJPDs) :
        /\ relevantJPDs[m].hasRepo
        /\ relevantJPDs[m].jpd = config.jpds[j].url
        /\ relevantJPDs[m].repoConfig = config.jpds[j].repos[r]

\* the repo scopes the claim is about: a non-empty list of roots, all strings
RootedScopes ==
    UNION {{<<j, r>> : r \in {n \in 1..Len(config.jpds[j].repos) :
                /\ HasPaths(config.jpds[j].repos[n])
                /\ \A k \in 1..Len(config.jpds[j].repos[n].paths.items) :
                      config.jpds[j].repos[n].paths.items[k].isString}} :
           j \in 1..Len(config.jpds)}

RootsOf(j, r) ==
    {config.jpds[j].repos[r].paths.items[k].s :
        k \in 1..Len(config.jpds[j].repos[r].paths.items)}

\* d equals root, or root + "/" is a prefix of d
EqualsOrUnderRootSlash(d, root) ==
    d = root \/ StartsWith(d, root \o <<"/">>)

\* d equals root, or root is a proper prefix of d that ends at a segment
\* boundary: root ends with "/" or the next character of d is "/"
EqualsOrUnderBoundary(d, root) ==
    \/ d = root
    \/ /\ Len(d) > Len(root)
       /\ \A n \in 1..Len(root) : d[n] = root[n]
       /\ \/ Len(root) > 0 /\ root[Len(root)] = "/"
          \/ d[Len(root) + 1] = "/"

\* C8 as claimed -- Boundary-safe prefix matching: a rooted scope is selected
\* if and only if the upload directory d equals some root r or starts with
\* r + "/", for every root string (roots ending with "/" included).
C8_AsClaimed ==
    Resolved =>
        \A sc \in RootedScopes :
            Selected(sc[1], sc[2])
            <=> \E root \in RootsOf(sc[1], sc[2]) : EqualsOrUnderRootSlash(uploadDirectory, root)

\* C8 amended -- a rooted scope is selected if and only if for some root r the
\* upload directory d equals r, or r is a proper prefix of d ending at a
\* segment boundary (r ends with "/", or d continues with "/" after r).  For a
\* root that does not end with "/" this is d = r or d starts with r + "/".
C8_BoundarySafePrefix ==
    [](Resolved =>
        \A sc \in RootedScopes :
            Selected(sc[1], sc[2])
            <=> \E root \in RootsOf(sc[1], sc[2]) : EqualsOrUnderBoundary(uploadDirectory, root))

\* C8 witness: root "i/" has selected the directory "i/i", which neither
\* equals the root nor starts with "i//".
C8_Witness ==
    /\ Resolved
    /\ Len(config.jpds) = 1 /\ Len(config.jpds[1].repos) = 1
    /\ config.jpds[1].repos[1].paths = PathsArr(<<Root(<<"i", "/">>)>>)
    /\ uploadDirectory = <<"i", "/", "i">>
    /\ Selected(1, 1)

\* C9 -- Wait-for-all: while a posted query is in flight the handler has
\* returned nothing and has taken no decision, also when a duplicate is
\* already recorded; a run that returned after the search has every job
\* settled.
C9_WaitForAll ==
    /\ (\E i \in 1..Len(jobs) : jobs[i] = "inflight")
          => /\ pc \in {"spawn", "search"}
             /\ response = NoResponse
             /\ status = UPLOAD_UNSPECIFIED
    /\ SearchReturned => \A i \in 1..Len(jobs) : jobs[i] \in {"settled", "skipped"}

\* C9 witness: a duplicate is recorded while another query is still in flight.
C9_Witness ==
    /\ found
    /\ \E i \in 1..Len(jobs) : jobs[i] = "inflight"

\* C10 -- First write wins: once found is true it stays true, and the recorded
\* result and message never change again; before that nothing is recorded.
C10_FirstWriteWins ==
    [][ /\ found => /\ found'
                    /\ foundResult' = foundResult
                    /\ foundMessage' = foundMessage
        /\ ~ found' => (foundResult' = << >> /\ foundMessage' = NoMessage)
      ]_vars

\* C10 witness: a later query returned a different item than the recorded one
\* and did not replace it.
C10_Witness ==
    /\ found
    /\ \E i \in 1..Len(replies) :
          /\ jobs[i] = "settled"
          /\ replies[i].kind = "response" /\ Len(replies[i].results) > 0
          /\ replies[i].results # foundResult

\* reply i carries at least one item
IsMatch(i) ==
    replies[i].kind = "response" /\ replies[i].hasResults /\ Len(replies[i].results) > 0

\* the job whose completion was the first to run with a non-empty result
FirstMatchHandled ==
    handled[CHOOSE k \in 1..Len(handled) :
                /\ IsMatch(handled[k])
                /\ \A n \in 1..(k-1) : ~ IsMatch(handled[n])]

\* the message that names target url, repo and full path of item it
NamesMatch(msg, url, it) ==
    /\ msg.text = "Artifact matching <path> already exists in JPD: <jpd>:<repo>/<item>"
    /\ msg.path = data.path
    /\ msg.jpd = url
    /\ msg.repo = it.repo
    /\ msg.item = IF it.path = <<".">> THEN it.name ELSE it.path \o <<"/">> \o it.name

\* C11 -- Recorded match: the match named in the message is the first item of
\* the result of the matching query whose completion ran first, whatever the
\* order of submission; nothing is recorded from a failed or empty query; a
\* STOP or WARN taken under "block" or "warn" carries that message.
C11_RecordedMatch ==
    /\ ~ SomeMatchReturned => foundMessage = NoMessage
    /\ SomeMatchReturned =>
          /\ NamesMatch(foundMessage, relevantJPDs[FirstMatchHandled].jpd,
                        replies[FirstMatchHandled].results[1])
          /\ (pc = "returned" /\ config.action \in {"block", "warn"})
                => response.message = foundMessage

\* C11 witness: both targets returned a match, the completion of the second
\* ran first, and the returned message names the second target.
C11_Witness ==
    /\ pc = "returned"
    /\ Len(handled) = 2 /\ handled[1] = 2
    /\ IsMatch(1) /\ IsMatch(2)
    /\ relevantJPDs[1].jpd # relevantJPDs[2].jpd
    /\ response.message.jpd = relevantJPDs[2].jpd

\* C12 -- Short-circuit guard: once found is true no further query is posted
\* in the run; a job that met found = TRUE at its guard has posted no query
\* and recorded nothing.
C12_ShortCircuitGuard ==
    [][ /\ found => queries' = queries
        /\ \A i \in 1..Len(jobs') :
              jobs'[i] = "skipped" => (replies'[i] = NoReply /\ queries' = queries)
      ]_vars

\* C12 witness: a duplicate is recorded while queries are in flight, and every
\* scope match has had its query posted.
C12_Witness ==
    /\ found
    /\ pc = "search"
    /\ Len(queries) = Len(jobs) /\ Len(jobs) >= 2
    /\ \E i \in 1..Len(jobs) : jobs[i] = "inflight"

\* C13 -- Unexpected internal error: an error that escapes is turned into the
\* STOP decision carrying the message of the error and is raised again; the
\* run returns nothing, so it ends neither with PROCEED nor with WARN.
C13_InternalError ==
    pc = "raised" =>
        /\ status = UPLOAD_STOP
        /\ message.text = "Worker execution failed: <error.message>"
        /\ message.repo = "configPath.endsWith is not a function"
        /\ response = NoResponse

\* C13 witness: the resolver met a path root that is not a string.
C13_Witness ==
    /\ pc = "raised"
    /\ \E j \in 1..Len(config.jpds) : \E r \in 1..Len(config.jpds[j].repos) :
          \E k \in 1..Len(config.jpds[j].repos[r].paths.items) :
              ~ config.jpds[j].repos[r].paths.items[k].isString

\* the store answered 200 with the text of a JSON object
DocumentStored ==
    /\ store.kind = "response" /\ store.status = 200
    /\ store.dataType \in {"string", "object"}
    /\ store.text.kind = "json" /\ store.text.doc.kind = "object"

\* the target entries of the stored document
StoredTargets ==
    IF DocumentStored /\ store.text.doc.jpds.kind = "array"
    THEN store.text.doc.jpds.items ELSE << >>

\* C14 as claimed -- Malformed configuration never fails the run: whatever the
\* configuration document, a run for a processable upload does not raise.
C14_AsClaimed ==
    UploadIsProcessable => pc # "raised"

\* C15 as claimed -- ConfigModel invariant: every target held by the
\* configuration has a non-empty url and every repo scope a non-empty name.
C15_AsClaimed ==
    ConfigLoaded =>
        \A j \in 1..Len(config.jpds) :
            /\ config.jpds[j].url # ""
            /\ \A r \in 1..Len(config.jpds[j].repos) : config.jpds[j].repos[r].name # ""

\* a raw target entry with a non-empty url
HasUrl(jpd) == jpd.kind = "object" /\ jpd.url # ""

\* a raw repo entry with a name: a bare name or an object with name
HasName(repo) == repo.kind \in {"string", "object"} /\ repo.name # ""

\* C16 as claimed -- Per-entry tolerance: the targets held are exactly the raw
\* entries with a non-empty url, in their order, and each holds exactly its
\* raw repo entries that have a name, in their order; a malformed entry
\* removes only itself.
C16_AsClaimed ==
    (UploadIsProcessable /\ ConfigLoaded /\ DocumentStored) =>
        LET kept == SelectSeq(StoredTargets, HasUrl)
        IN /\ Len(config.jpds) = Len(kept)
           /\ \A j \in 1..Len(kept) :
                 LET named == SelectSeq(kept[j].repos.items, HasName)
                 IN /\ config.jpds[j].url = kept[j].url
                    /\ Len(config.jpds[j].repos) = Len(named)
                    /\ \A r \in 1..Len(named) : config.jpds[j].repos[r].name = named[r].name

\* C17 as claimed -- Omitted repos: a stored target with a url and no repos
\* field is searched like a target with an empty repos list: a run that
\* returned has posted it a query without repo scope.
C17_AsClaimed ==
    (UploadIsProcessable /\ pc = "returned") =>
        \A t \in 1..Len(StoredTargets) :
            (HasUrl(StoredTargets[t]) /\ StoredTargets[t].repos.kind = "missing")
            => \E q \in 1..Len(queries) :
                   queries[q].jpd = StoredTargets[t].url /\ queries[q].repo = << >>

\* the targets of the configuration that have no repo scope
Unrestricted == {j \in 1..Len(config.jpds) : Len(config.jpds[j].repos) = 0}

\* C18 as claimed -- Unrestricted target: in every run for a processable
\* upload that has ended, each target held with an empty repos list has been
\* posted exactly one query, without repo scope.
C18_AsClaimed ==
    (UploadIsProcessable /\ pc \in {"returned", "raised"}) =>
        \A j \in Unrestricted :
            Cardinality({q \in 1..Len(queries) :
                            queries[q].jpd = config.jpds[j].url /\ queries[q].repo = << >>})
            = Cardinality({k \in Unrestricted : config.jpds[k].url = config.jpds[j].url})

\* the scope matches whose job posts a query, in the order of the scope
\* matches: the n-th query posted is the query of the n-th of them
PostingMatches == SelectSeq(relevantJPDs, LAMBDA m : ~ JobThrows(m))

\* the scope match whose job posted query n
MatchOfQuery(n) == PostingMatches[n]

\* the place among the queries of the query that the job of scope match i
\* posts
QueryOfJob(i) == i - Cardinality({k \in 1..i : JobThrows(relevantJPDs[k])})

\* C19 as claimed -- Repository restriction: the query of a scope match with
\* a repo scope is restricted to the name of the scope, the query of a scope
\* match without repo scope to the repo key of the upload.
C19_AsClaimed ==
    LET posting == PostingMatches
    IN \A i \in 1..Len(queries) :
          queries[i].repo = IF posting[i].hasRepo
                            THEN <<posting[i].repoConfig.name>>
                            ELSE <<data.key>>

\* C19 amended -- the query of a scope match with a repo scope is sent to the
\* target of the match and restricted to the name of the scope; the query of
\* a scope match without repo scope carries no repository restriction.
C19_RepoRestriction ==
    [](LET posting == PostingMatches
       IN \A i \in 1..Len(queries) :
             /\ queries[i].jpd = posting[i].jpd
             /\ queries[i].repo = IF posting[i].hasRepo
                                  THEN <<posting[i].repoConfig.name>>
                                  ELSE << >>)

\* C19 witness: a query without repository restriction has been posted for an
\* upload into repository "r", next to one restricted to a scope.
C19_Witness ==
    /\ data.key = "r"
    /\ \E i \in 1..Len(queries) : ~ MatchOfQuery(i).hasRepo /\ queries[i].repo = << >>
    /\ \E i \in 1..Len(queries) : MatchOfQuery(i).hasRepo /\ Len(queries[i].repo) = 1

\* position of the last "/" of p, 0 when there is none
LastSlash(p) ==
    IF \E n \in 1..Len(p) : p[n] = "/"
    THEN CHOOSE n \in 1..Len(p) : p[n] = "/" /\ \A k \in (n+1)..Len(p) : p[k] # "/"
    ELSE 0

\* the upload path up to its last "/", and what follows it
DirOfUpload ==
    IF LastSlash(data.path) = 0 THEN << >> ELSE SubSeq(data.path, 1, LastSlash(data.path) - 1)
NameOfUpload == SubSeq(data.path, LastSlash(data.path) + 1, Len(data.path))

\* the path restriction of query i, posted for scope match m, is as C20
\* says; a paths value that is a string of one character is read as the list
\* of that one root
PathRestrictionOk(i, m) ==
    LET roots == m.repoConfig.paths.items
    IN IF m.hasRepo /\ m.repoConfig.paths.kind \in {"array", "string"} /\ Len(roots) > 0
       THEN /\ Len(queries[i].pathMatch) = Len(roots)
            /\ \A k \in 1..Len(roots) :
                  roots[k].isString => queries[i].pathMatch[k] = roots[k].s \o <<"*">>
            /\ queries[i].path = << >>
       ELSE /\ queries[i].pathMatch = << >>
            /\ queries[i].path = IF DirOfUpload = << >> THEN <<".">> ELSE DirOfUpload

\* C20 as claimed -- Path, name and limit: roots give the OR of the patterns
\* root + "*"; without roots the path equals the directory of the upload
\* ("." at the repository root); every query matches the file name of the
\* upload and asks for at most 1 result.
C20_AsClaimed ==
    \A i \in 1..Len(queries) :
        /\ PathRestrictionOk(i, MatchOfQuery(i))
        /\ queries[i].name = NameOfUpload
        /\ queries[i].limit = 1

\* C20 amended -- as claimed, except that for an upload path that ends with
\* "/" (empty file name) the name pattern is "*", which matches every name.
C20_PathNameLimit ==
    [](LET posting == PostingMatches
       IN \A i \in 1..Len(queries) :
             /\ PathRestrictionOk(i, posting[i])
             /\ queries[i].name = IF NameOfUpload = << >> THEN <<"*">> ELSE NameOfUpload
             /\ queries[i].limit = 1)

\* C20 witness: for an upload path ending with "/" a query with two root
\* patterns and the name pattern "*" has been posted.
C20_Witness ==
    /\ NameOfUpload = << >>
    /\ \E i \in 1..Len(queries) :
          Len(queries[i].pathMatch) = 2 /\ queries[i].name = <<"*">>

\* the roots of a repo scope of the configuration let it watch the directory
\* of the upload: it has no roots, or one of its roots is the directory or a
\* prefix of it that ends at a segment boundary
Watches(repoConfig) ==
    \/ repoConfig.paths.kind # "array"
    \/ Len(repoConfig.paths.items) = 0
    \/ \E k \in 1..Len(repoConfig.paths.items) :
          /\ repoConfig.paths.items[k].isString
          /\ EqualsOrUnderBoundary(uploadDirectory, repoConfig.paths.items[k].s)

\* target j of the configuration is relevant for the upload
TargetRelevant(j) ==
    \/ Len(config.jpds[j].repos) = 0
    \/ \E r \in 1..Len(config.jpds[j].repos) : Watches(config.jpds[j].repos[r])

\* the urls the run knows of
UrlsInPlay ==
    {queries[i].jpd : i \in 1..Len(queries)}
    \cup {relevantJPDs[m].jpd : m \in 1..Len(relevantJPDs)}

\* C21 -- Only relevant targets are queried: per target url there are at most
\* as many queries as scope matches, the i-th query is sent to the target of
\* the i-th scope match, and a url none of whose targets is relevant for the
\* upload gets no query.
C21_OnlyRelevantQueried ==
    [](/\ Len(queries) <= Len(relevantJPDs)
       /\ \A u \in UrlsInPlay :
             Cardinality({i \in 1..Len(queries) : queries[i].jpd = u})
             <= Cardinality({m \in 1..Len(relevantJPDs) : relevantJPDs[m].jpd = u})
       /\ \A i \in 1..Len(queries) :
             /\ queries[i].jpd = MatchOfQuery(i).jpd
             /\ \E j \in 1..Len(config.jpds) :
                   config.jpds[j].url = queries[i].jpd /\ TargetRelevant(j))

\* C21 witness: the run has returned after a search; of the two targets of the
\* configuration one is relevant and got the only query, the other got none.
C21_Witness ==
    /\ pc = "returned"
    /\ Len(config.jpds) = 2
    /\ TargetRelevant(1) /\ ~ TargetRelevant(2)
    /\ Len(queries) = 1
    /\ queries[1].jpd = config.jpds[1].url
    /\ config.jpds[2].url # config.jpds[1].url

\* the places of the configuration that give a scope match for the upload:
\* <<j, 0>> for a target j without repo scopes, <<j, r>> for scope r of
\* target j when it watches the directory of the upload
Places ==
    {<<j, 0>> : j \in {n \in 1..Len(config.jpds) : Len(config.jpds[n].repos) = 0}}
    \cup UNION {{<<j, r>> : r \in {n \in 1..Len(config.jpds[j].repos) :
                                      Watches(config.jpds[j].repos[n])}} :
                j \in 1..Len(config.jpds)}

\* place p comes before place q in the configuration
PlaceBefore(p, q) == p[1] < q[1] \/ (p[1] = q[1] /\ p[2] < q[2])

\* the position of place p among the places, in configuration order
PlaceRank(places, p) == 1 + Cardinality({q \in places : PlaceBefore(q, p)})

\* C22 -- Deterministic, ordered resolution: once the resolver has run to its
\* end, the scope matches are the places of the configuration that give a
\* match, one match per place (nothing is merged), in configuration order,
\* and resolving again gives the same sequence.
C22_OrderedResolution ==
    [](Resolved =>
        LET places == Places
        IN
        /\ Len(relevantJPDs) = Cardinality(places)
        /\ \A p \in places :
              LET m == relevantJPDs[PlaceRank(places, p)]
              IN /\ m.jpd = config.jpds[p[1]].url
                 /\ m.hasRepo = (p[2] # 0)
                 /\ p[2] # 0 => m.repoConfig = config.jpds[p[1]].repos[p[2]]
        /\ Len(relevantJPDs) > 0 => RelevantJPDs(uploadDirectory, config.jpds) = relevantJPDs)

\* C22 witness: a target configured twice, with the same scope three times in
\* all, has given three equal scope matches.
C22_Witness ==
    /\ Resolved
    /\ Len(relevantJPDs) = 3
    /\ relevantJPDs[1].hasRepo
    /\ relevantJPDs[1] = relevantJPDs[2] /\ relevantJPDs[2] = relevantJPDs[3]
    /\ Len(config.jpds) = 2

\* invocations a and b handle the same upload, and the documents the store
\* gives them differ at most in their action
OnlyActionDiffers(a, b) ==
    /\ a.data = b.data
    /\ a.store.kind = "response" /\ b.store.kind = "response"
    /\ a.store.text.kind = "json" /\ b.store.text.kind = "json"
    /\ [a.store EXCEPT !.text.doc.action = "block"]
         = [b.store EXCEPT !.text.doc.action = "block"]

\* invocation a has resolved its scope; it has posted its queries
HasResolved(a) == a.pc \in {"spawn", "search", "returned"}
HasPosted(a) == a.pc \in {"search", "returned"}

\* C23 -- Action does not influence resolution: two invocations for the same
\* upload whose configurations differ only in action have the same scope
\* matches and post the same queries; when they got the same replies and
\* found no duplicate they return the same response.
C23_ActionIndependence ==
    OnlyActionDiffers(Running, other) =>
        /\ (HasResolved(Running) /\ HasResolved(other))
              => relevantJPDs = other.relevantJPDs
        /\ (HasPosted(Running) /\ HasPosted(other)) => queries = other.queries
        /\ (pc = "returned" /\ other.pc = "returned"
              /\ replies = other.replies /\ handled = other.handled /\ ~ found)
              => response = other.response

\* C23 witness: two invocations with actions block and warn have posted the
\* same queries, got the same duplicate, and returned STOP and WARN.
C23_Witness ==
    /\ OnlyActionDiffers(Running, other)
    /\ pc = "returned" /\ other.pc = "returned"
    /\ config.action = "block" /\ other.config.action = "warn"
    /\ Len(queries) > 0 /\ queries = other.queries
    /\ replies = other.replies
    /\ found /\ other.found
    /\ response.status = UPLOAD_STOP /\ other.response.status = UPLOAD_WARN
    /\ response.message = other.response.message

\* the handler has returned a response
HasReturned == pc = "returned" /\ response # NoResponse

\* C24 as claimed -- Identity echo: every response returned carries the
\* repository/path identity of the upload as received, whatever the outcome,
\* validation failure included.
C24_AsClaimed ==
    HasReturned =>
        response.modifiedRepoPath =
            IF data.hasRepoPath
            THEN [defined |-> TRUE, key |-> data.key, path |-> data.path]
            ELSE [defined |-> FALSE, key |-> "", path |-> << >>]

\* C24 amended -- every response returned for a processable upload carries
\* its repository/path identity as received (no-scope fast path, PROCEED,
\* WARN, STOP); the response to a validation failure carries no identity,
\* also when the event had a repoPath.
C24_IdentityEcho ==
    HasReturned =>
        response.modifiedRepoPath =
            IF UploadIsProcessable
            THEN [defined |-> TRUE, key |-> data.key, path |-> data.path]
            ELSE [defined |-> FALSE, key |-> "", path |-> << >>]

\* C24 witness: an event with repoKey "r" and an empty path has been answered
\* STOP, without identity.
C24_Witness ==
    /\ HasReturned
    /\ data.hasRepoPath /\ data.key = "r" /\ data.path = << >>
    /\ response.status = UPLOAD_STOP
    /\ ~ response.modifiedRepoPath.defined

\* C25 -- Well-formed response: every response returned has a status among
\* PROCEED, STOP and WARN, a message with a non-empty text, and no headers.
C25_WellFormedResponse ==
    HasReturned =>
        /\ response.status \in {UPLOAD_PROCEED, UPLOAD_STOP, UPLOAD_WARN}
        /\ response.message # NoMessage
        /\ response.message.text \notin {"", Undefined}
        /\ response.headers = {}

\* C25 witness: a duplicate was found under an action that is not recognised,
\* and the response has been returned.
C25_Witness ==
    /\ HasReturned
    /\ found
    /\ config.action \notin {"block", "warn"}
    /\ response.status = UPLOAD_STOP

\* invocation a has been entered; it has got the text from the store
Entered(a) == a.pc # "start"
HasLoaded(a) == a.pc \in {"spawn", "search", "returned", "raised"}

\* invocation a has read the store once, and what it works with is the text
\* it has read itself: its configuration is the one parsed from that text and
\* its scope matches are resolved from that configuration
ReadsItsOwnText(a) ==
    /\ a.storeCalls = IF Entered(a) THEN 1 ELSE 0
    /\ HasLoaded(a) =>
          /\ a.config = Config(loadConfig(a.store))
          /\ IF ResolveThrows(getDirectoryPathFromPath(a.data.path), a.config.jpds)
             THEN a.pc = "raised"
             ELSE a.relevantJPDs =
                      RelevantJPDs(getDirectoryPathFromPath(a.data.path),
                                   Config(loadConfig(a.store)).jpds)
    /\ Len(a.queries) > 0 => HasLoaded(a)

\* C26 -- No caching across events: each of two invocations reads the store
\* exactly once, before it resolves, and works with the configuration parsed
\* from the text it has read, whatever the other invocation has read.
C26_NoCaching ==
    ReadsItsOwnText(Running) /\ ReadsItsOwnText(other)

\* C26 witness: two invocations for the same upload have returned; the stored
\* configuration had changed in between, and they resolved, queried and
\* decided differently.
C26_Witness ==
    /\ pc = "returned" /\ other.pc = "returned"
    /\ data = other.data
    /\ store # other.store
    /\ other.config.jpds = << >> /\ other.queries = << >>
    /\ other.response.message = NotInScope
    /\ Len(config.jpds) > 0 /\ Len(queries) > 0
    /\ found /\ response.status = UPLOAD_STOP

\* a reply that carries a duplicate
CarriesMatch(resp) == resp.kind = "response" /\ Len(resp.results) > 0

\* what invocation a has found, posted and decided follows from its own
\* event, its own scope matches and the replies to its own queries
OwnOutcome(a) ==
    /\ a.found = (\E k \in 1..Len(a.handled) : CarriesMatch(a.replies[a.handled[k]]))
    /\ a.found =>
          /\ a.foundMessage.path = a.data.path
          /\ \E k \in 1..Len(a.handled) :
                /\ CarriesMatch(a.replies[a.handled[k]])
                /\ a.foundMessage.jpd = a.relevantJPDs[a.handled[k]].jpd
                /\ a.foundResult = a.replies[a.handled[k]].results
    /\ ~ a.found => a.foundMessage = NoMessage /\ a.foundResult = << >>
    /\ (HasPosted(a) /\ Len(a.relevantJPDs) > 0) =>
          a.queries = [i \in 1..Len(a.relevantJPDs) |->
                          JobQuery(a.data.path, a.relevantJPDs[i])]
    /\ (a.pc = "returned" /\ Len(a.relevantJPDs) > 0) =>
          (a.response.status = UPLOAD_PROCEED) = (~ a.found)

\* C27 -- No cross-event sharing: with two invocations handled with
\* interleaved steps, the found flag and the recorded match of each follow
\* from the replies to its own queries only, each posts all of its own
\* queries, and each decides on its own found flag.
C27_NoCrossEventSharing ==
    OwnOutcome(Running) /\ OwnOutcome(other)

\* C27 witness: two invocations for the same upload and the same
\* configuration have returned; one had found a duplicate and stopped, the
\* other had posted the same queries, found nothing and proceeded.
C27_Witness ==
    /\ pc = "returned" /\ other.pc = "returned"
    /\ data = other.data /\ store = other.store
    /\ found /\ response.status = UPLOAD_STOP
    /\ ~ other.found /\ other.response.status = UPLOAD_PROCEED
    /\ Len(queries) = 2 /\ other.queries = queries

\* the sync run has entered the pull phase
PullPhaseReached == Len(outcome) > 0

\* the download calls made for path k of the pull phase
DownloadsOf(k) == {c \in 1..Len(calls) : calls[c] = DownloadCall(allPaths[k])}

\* C28 -- Sync worker, every artifact processed exactly once: in a run that
\* has reached the pull phase with maxWorkers >= 1, a path has one download
\* call once it is issued and none before; when the run has ended every path
\* has been called once, whatever the calls before it ended with, the two
\* counts add up to the number of paths, and the failures are in the message.
C28_EveryArtifactOnce ==
    (PullPhaseReached /\ maxWorkers >= 1) =>
        /\ \A k \in 1..Len(allPaths) :
              Cardinality(DownloadsOf(k)) = IF outcome[k] = "unissued" THEN 0 ELSE 1
        /\ phase = "done" =>
              /\ \A k \in 1..Len(allPaths) : outcome[k] \in {"ok", "failed"}
              /\ successCount = Cardinality({k \in 1..Len(allPaths) : outcome[k] = "ok"})
              /\ failureCount = Cardinality({k \in 1..Len(allPaths) : outcome[k] = "failed"})
              /\ successCount + failureCount = Len(allPaths)
              /\ result = IF failureCount > 0
                          THEN CompletedWithFailures(Len(allPaths), successCount, failureCount)
                          ELSE SuccessfullySynced(successCount)

\* C28 witness: with maxWorkers 1 the first of three calls failed, the other
\* two were made and succeeded, and the run has ended.
C28_Witness ==
    /\ phase = "done"
    /\ maxWorkers = 1
    /\ outcome = <<"failed", "ok", "ok">>
    /\ failureCount = 1 /\ successCount = 2
    /\ Len(calls) >= 3

\* C29 as claimed -- Sync worker, bounded parallelism: at most maxWorkers
\* download calls are pending at any moment; the pending calls all belong to
\* one batch, and when one is pending every path of the batches before has
\* completed.
C29_AsClaimed ==
    PullPhaseReached =>
        /\ (\E k \in 1..Len(outcome) : outcome[k] = "pending")
              => Cardinality({k \in 1..Len(outcome) : outcome[k] = "pending"}) <= maxWorkers
        /\ \A k \in 1..Len(outcome) :
              outcome[k] = "pending" => \A j \in 1..(k-1) : outcome[j] # "unissued"

\* the distinct paths the expansion has returned
DistinctExpanded == {ReturnedPaths[k] : k \in 1..Len(ReturnedPaths)}

\* no download call has been made
NoDownloadCall == \A c \in 1..Len(calls) : calls[c].kind # "download"

\* C30 as claimed -- Sync worker, dry run: with dryRun true no download call
\* is made and the run ends with the DRY-RUN message for the number of
\* distinct expanded paths.
C30_AsClaimed ==
    dryRun =>
        /\ NoDownloadCall
        /\ phase = "done" => result = DryRunMessage(Cardinality(DistinctExpanded))

\* C30 amended -- with dryRun true no download call is made; a run with a
\* target repository and at least one distinct expanded path ends with the
\* DRY-RUN message for their number (and the repository); without target
\* repository, without paths, or with nothing left after the expansion, it
\* ends with the message of that case.
C30_DryRun ==
    dryRun =>
        /\ NoDownloadCall
        /\ phase = "done" =>
              result = IF props.targetRemoteRepo = ""
                       THEN ScheduledEventFailed("targetRemoteRepo property is required")
                       ELSE IF Len(allPaths) = 0 /\ expandIndex = 0
                       THEN NothingToSync
                       ELSE IF DistinctExpanded = {}
                       THEN NoFilesAfterExpansion
                       ELSE DryRunMessage(Cardinality(DistinctExpanded))

\* C30 witness: a dry run whose directory listing named the same file twice
\* has ended with the message for one artifact.
C30_Witness ==
    /\ dryRun
    /\ phase = "done"
    /\ Len(expandedPaths) = 2
    /\ result = DryRunMessage(1)
    /\ \E c \in 1..Len(calls) : calls[c].kind = "listing"

\* the innermost call of the directory discovery
InnermostCall == stack[Len(stack)]

\* C31 as claimed -- Sync worker, bounded directory discovery: the calls of
\* discoverFilesFromUpstream within each other are limited, whatever the
\* upstream lists: a call MaxDepth deep has no subdirectory left to go into.
C31_AsClaimed ==
    (phase = "recurse" /\ Len(stack) = MaxDepth) =>
        Len(InnermostCall.subdirectories) = 0

\* C32 as claimed -- Sync worker, delta sync: in a run with onlyDelta true no
\* artifact the cache repository already holds receives a sync download call.
C32_AsClaimed ==
    onlyDelta =>
        \A c \in 1..Len(calls) :
            calls[c].kind = "download" => calls[c].path \notin CachedArtifacts

\* the handler has resolved with a response that carries a message
SyncResolved == phase = "done" /\ result # NoSyncResponse

\* C33 -- Sync worker, errors as messages: a run ends by resolving with a
\* message.  Without targetRemoteRepo the message is the failure message
\* naming the required property, and no HTTP call was made; with a paths
\* property that names no path the message is 'No artifact paths provided.
\* Nothing to sync.' and no call was made; in every other run no failure is
\* turned into the failure message: a repository-config call or a listing
\* that failed leaves the run going.
C33_ErrorsAsMessages ==
    /\ phase = "done" => SyncResolved
    /\ (phase = "done" /\ props.targetRemoteRepo = "") =>
          /\ result = ScheduledEventFailed("targetRemoteRepo property is required")
          /\ calls = << >>
    /\ (phase = "done" /\ props.targetRemoteRepo # ""
                       /\ Len(parsePathsArg(props.paths)) = 0) =>
          /\ result = NothingToSync
          /\ calls = << >>
    /\ props.targetRemoteRepo # "" => result.error = ""

\* C33 witness: the repository-config call was made and gave no upstream url,
\* the run went on and has ended with its download made.
C33_Witness ==
    /\ phase = "done"
    /\ Len(calls) = 2
    /\ calls[1] = RepoConfigCall
    /\ calls[2].kind = "download"
    /\ finalUpstreamUrl = ""
    /\ result = SuccessfullySynced(1)

\* every path of the pull phase has had its call, and the call has ended
AllProcessed == \A k \in 1..Len(outcome) : outcome[k] \in {"ok", "failed"}

\* C39 as claimed -- Sync worker, termination of the pull phase: whatever
\* maxWorkers is, every round of the batch loop moves the loop index forward
\* (so the loop ends after at most as many rounds as there are paths), and
\* when the pull phase has ended every path has been processed.
C39_AsClaimed ==
    [][ PullPhaseReached =>
           /\ (phase \in {"pulling", "delay"} /\ phase' = "batch")
                 => Less(loopIndex, loopIndex')
           /\ phase' = "done" => AllProcessed' ]_vars

\* the download calls, by their place in the list of calls
Downloads == {c \in 1..Len(calls) : calls[c].kind = "download"}

\* the place of the first occurrence of an item in a list that holds it
FirstIndex(items, x) ==
    CHOOSE k \in 1..Len(items) : items[k] = x /\ \A j \in 1..(k - 1) : items[j] # x

\* no two download calls are for the same path
NoPathTwice ==
    \A c1 \in Downloads : \A c2 \in Downloads : calls[c1].path = calls[c2].path => c1 = c2

\* the download calls follow the order in which the paths first occur in items
InOrderOf(items) ==
    \A c1 \in Downloads : \A c2 \in Downloads :
        c1 < c2 => FirstIndex(items, calls[c1].path) < FirstIndex(items, calls[c2].path)

\* the second build has filtered the expanded paths by the cache
DeltaFiltered == build = "variant" /\ onlyDelta

\* C40 as claimed -- Sync worker, no artifact synced twice: no path has more
\* than one download call, and the download calls follow the order in which
\* the paths first occur in the expanded path list.
C40_AsClaimed ==
    /\ NoPathTwice
    /\ InOrderOf(expandedPaths)

\* C40 amended -- no path has more than one download call; the download calls
\* follow the order in which the paths first occur in the expanded path list,
\* except in a run of the second build with onlyDelta true, where they follow
\* the order in which the cache checks of the uncached paths ended.
C40_NoArtifactTwice ==
    /\ NoPathTwice
    /\ InOrderOf(IF DeltaFiltered THEN uncachedFiles ELSE expandedPaths)

\* C40 witness: the paths property named f twice (once with a leading slash)
\* and then g; the run has ended with one download call for f, then one for g.
C40_Witness ==
    /\ phase = "done"
    /\ props.paths = <<"f", ";", "/", "f", ";", " ", "g">>
    /\ expandedPaths = <<<<"f">>, <<"g">>>>
    /\ Len(calls) = 2
    /\ calls[1] = DownloadCall(<<"f">>) /\ calls[2] = DownloadCall(<<"g">>)

\* the run has come to the search step: the loop that creates the jobs is over
SearchStepReached == pc = "search" \/ (pc \in {"returned", "raised"} /\ Len(jobs) > 0)

\* C35 as claimed -- All queries are issued before any result is processed:
\* no job is ever skipped; when the first completion is handled, and from the
\* search step on, exactly one query per scope match has been posted, in the
\* order of the scope matches, whether or not a duplicate has been found.
C35_AsClaimed ==
    /\ \A i \in 1..Len(jobs) : jobs[i] # "skipped"
    /\ (SearchStepReached \/ Len(handled) > 0) =>
          /\ Len(queries) = Len(relevantJPDs)
          /\ \A k \in 1..Len(queries) : queries[k] = JobQuery(data.path, relevantJPDs[k])

\* two invocations for uploads of the same path into different repositories,
\* under the same stored configuration
SamePathOtherRepo(a, b) ==
    /\ a.data.path = b.data.path
    /\ a.data.key # b.data.key
    /\ a.store = b.store

\* C36 -- Scope resolution ignores the upload's repository key: two
\* invocations for uploads of the same path into different repositories, under
\* the same configuration, resolve to the same scope matches and post the
\* same queries; the repository a query names is the configured one, whatever
\* repository the upload goes to.
C36_RepoKeyIgnored ==
    SamePathOtherRepo(Running, other) =>
        /\ (HasResolved(Running) /\ HasResolved(other))
              => relevantJPDs = other.relevantJPDs
        /\ (HasPosted(Running) /\ HasPosted(other)) => queries = other.queries
        /\ \A k \in 1..Len(queries) :
              MatchOfQuery(k).hasRepo =>
                  queries[k].repo = <<MatchOfQuery(k).repoConfig.name>>

\* C36 witness: uploads of the same path into x and into r have posted the
\* same query, which names the configured repository r; the upload into x was
\* stopped for the file found in r.
C36_Witness ==
    /\ SamePathOtherRepo(Running, other)
    /\ data.key = "x" /\ other.data.key = "r"
    /\ pc = "returned" /\ other.pc = "returned"
    /\ Len(queries) = 1 /\ queries = other.queries
    /\ queries[1].repo = <<"r">>
    /\ found /\ foundResult[1].repo = "r"
    /\ response.status = UPLOAD_STOP

\* scope match i has string path roots
RootedMatch(i) ==
    /\ relevantJPDs[i].hasRepo
    /\ HasPaths(relevantJPDs[i].repoConfig)
    /\ \A k \in 1..Len(relevantJPDs[i].repoConfig.paths.items) :
          relevantJPDs[i].repoConfig.paths.items[k].isString

\* C37 as claimed -- The remote query agrees with the resolver on path
\* boundaries: when the duplicate reported comes from a scope with path roots
\* and is an item that satisfies the query of that scope, the directory of the
\* item equals a root of the scope or lies under root + "/".
C37_AsClaimed ==
    found =>
        LET i == FirstMatchHandled
            item == replies[i].results[1]
        IN (RootedMatch(i) /\ ItemMatches(item, queries[QueryOfJob(i)])) =>
              \E k \in 1..Len(relevantJPDs[i].repoConfig.paths.items) :
                  EqualsOrUnderRootSlash(item.path,
                                         relevantJPDs[i].repoConfig.paths.items[k].s)

\* the run has ended: the handler has returned or raised
RunEnded == pc \in {"returned", "raised"}

\* C38 -- Termination of an upload run: a run in which the store call and
\* every posted query complete ends by returning or raising; and a run that
\* has ended has no posted query still in flight.
C38_Termination ==
    /\ <> RunEnded
    /\ [](RunEnded => \A i \in 1..Len(jobs) : jobs[i] # "inflight")

\* C38 witness: a run with two posted queries, one of which failed, has
\* ended by returning.
C38_Witness ==
    /\ pc = "returned"
    /\ Len(queries) = 2
    /\ Len(handled) = 2
    /\ \E i \in 1..2 : replies[i] = AqlReject

\* ---- C34
\* the kinds of the calls made so far, in order
CallKinds == [k \in 1..Len(diffCalls) |-> diffCalls[k].kind]

\* C34: the build-diff worker ends every run with a response that carries a
\* message (an error included: nothing is raised); the token is requested
\* only after the builds were requested and a previous build number was
\* found, else the run ends with 'No previous build found' after the builds
\* request alone; the diff request is posted only after the token request
\* gave a token, and carries it, else the run ends with 'Failed to generate
\* access token' without a diff request.
C34_StepOrder ==
    /\ CallKinds \in {<< >>, <<"builds">>, <<"builds", "token">>,
                      <<"builds", "token", "diff">>}
    /\ IF diffPc = "done"
       THEN diffResponse \in {NoPreviousBuild, NoAccessToken, Proceed, DiffError}
       ELSE diffResponse = NoDiffResponse
    /\ Len(diffCalls) >= 2 => ~ Falsy(previousBuildNumber)
    /\ Len(diffCalls) >= 3 =>
          /\ ~ Falsy(accessToken)
          /\ diffCalls[3] = DiffCall(buildEvent.number, previousBuildNumber, accessToken)
    /\ (diffPc = "done" /\ buildEvent.hasBuild /\ Falsy(previousBuildNumber)) =>
          /\ diffResponse = NoPreviousBuild
          /\ CallKinds = <<"builds">>
    /\ (diffPc = "done" /\ ~ Falsy(previousBuildNumber) /\ Falsy(accessToken)) =>
          /\ diffResponse = NoAccessToken
          /\ CallKinds = <<"builds", "token">>

\* a run that found the build before, got a token and posted the diff
C34_Witness ==
    /\ diffPc = "done"
    /\ diffResponse = Proceed
    /\ CallKinds = <<"builds", "token", "diff">>
    /\ previousBuildNumber = <<"2">>
    /\ accessToken = <<"t">>

====
